---- MODULE Spec2Model ----
(***************************************************************************)
(* Model of the edit-lines line editor (utils/fileEditor.ts, both the      *)
(* action-based and the range-based FileEditor), of the StateManager       *)
(* (utils/stateManager.ts) and of approveEdit (utils/approveEdit.ts).      *)
(*                                                                         *)
(* A JavaScript string is a sequence of one-character strings.  An edit    *)
(* request object is a record whose field "keys" lists the object's own    *)
(* keys in insertion order (JSON.stringify and the `in` operator depend on *)
(* it); a key that is absent, or whose value is undefined, holds Undef,    *)
(* UndefNum or UndefAction.                                                *)
(***************************************************************************)
EXTENDS Integers, Sequences, FiniteSets, TLC

\* ------------------------------------------------------------------ bounds
\* Longest batch of edit requests handed to one editFile call.
MaxEdits == 2
\* Last instant of the clock (Date.now()) the model explores.
MaxTime == 3
\* Largest TTL (MCP_EDIT_STATE_TTL) the StateManager is constructed with.
MaxTTL == 2
\* The longest file content of the runs that edit nothing.
MaxLen == 4
\* The longest file a preview is asked for.
MaxFile == 10
\* The most previews kept for approval at once.
MaxSaved == 2

\* ----------------------------------------------------------------- strings
NL == "\n"
CR == "\r"
Undef == <<"undefined">>
UndefNum == 0 - 1
UndefAction == "undefined"

IsWS(c) == c \in {" ", NL, CR, "\t"}

MinOf(S) == CHOOSE x \in S : \A y \in S : x <= y
MaxOf(S) == CHOOSE x \in S : \A y \in S : x >= y

\* Length of the whitespace prefix of s (the match of /^(\s*)/).
getIndentationLevel(s) ==
  LET stop == {i \in 1..Len(s) : ~IsWS(s[i])}
  IN IF stop = {} THEN Len(s) ELSE MinOf(stop) - 1

trimStart(s) == SubSeq(s, getIndentationLevel(s) + 1, Len(s))

trimEnd(s) ==
  LET stop == {i \in 1..Len(s) : ~IsWS(s[i])}
  IN IF stop = {} THEN <<>> ELSE SubSeq(s, 1, MaxOf(stop))

trim(s) == trimStart(trimEnd(s))

\* String.prototype.includes
includes(s, t) ==
  \E i \in 0..(Len(s) - Len(t)) : SubSeq(s, i + 1, i + Len(t)) = t

\* String.prototype.split("\n")
RECURSIVE splitLines(_)
splitLines(s) ==
  LET nl == {i \in 1..Len(s) : s[i] = NL}
  IN IF nl = {} THEN <<s>>
     ELSE LET i == MinOf(nl)
          IN <<SubSeq(s, 1, i - 1)>> \o splitLines(SubSeq(s, i + 1, Len(s)))

\* Array.prototype.join("\n")
RECURSIVE joinLines(_)
joinLines(ls) ==
  IF Len(ls) = 0 THEN <<>>
  ELSE IF Len(ls) = 1 THEN ls[1]
  ELSE ls[1] \o <<NL>> \o joinLines(Tail(ls))

\* s.replace(/\s+/g, " ")
RECURSIVE collapseWhitespace(_)
collapseWhitespace(s) ==
  IF Len(s) = 0 THEN <<>>
  ELSE IF IsWS(s[1])
       THEN <<" ">> \o collapseWhitespace(trimStart(s))
       ELSE <<s[1]>> \o collapseWhitespace(Tail(s))

\* " ".repeat(n)
spaces(n) == [i \in 1..n |-> " "]

\* utils/utils.ts is not part of the sources: CRLF becomes LF.
RECURSIVE normalizeLineEndings(_)
normalizeLineEndings(s) ==
  IF Len(s) = 0 THEN <<>>
  ELSE IF Len(s) >= 2 /\ s[1] = CR /\ s[2] = NL
       THEN <<NL>> \o normalizeLineEndings(SubSeq(s, 3, Len(s)))
       ELSE <<s[1]>> \o normalizeLineEndings(Tail(s))

\* ------------------------------------------------------------------ RegExp
\* The patterns of the model are those made of literal characters, "." (any
\* character but a line terminator), "^" (the start of the text, there being
\* no m flag) and "(" with no ")": the latter does not compile (SyntaxError:
\* unterminated group).  A compiled pattern is its
\* sequence of tokens; "WS+" stands for \s+, which only the editor writes.
regexCompiles(p) == \A i \in 1..Len(p) : p[i] # "("

regexTokens(p) ==
  [i \in 1..Len(p) |->
     IF p[i] = "." THEN "ANY" ELSE IF p[i] = "^" THEN "START" ELSE p[i]]

\* Offset just after a match of toks[k..] that starts at offset i of s, or -1.
RECURSIVE matchFrom(_, _, _, _)
matchFrom(toks, k, s, i) ==
  IF k > Len(toks) THEN i
  ELSE IF toks[k] = "START"
       THEN IF i = 0 THEN matchFrom(toks, k + 1, s, i) ELSE -1
  ELSE IF toks[k] = "WS+"
       THEN LET run  == getIndentationLevel(SubSeq(s, i + 1, Len(s)))
                ends == {n \in 1..run : matchFrom(toks, k + 1, s, i + n) # -1}
            IN IF ends = {} THEN -1
               ELSE matchFrom(toks, k + 1, s, i + MaxOf(ends))
  ELSE IF i >= Len(s) THEN -1
  ELSE IF toks[k] = "ANY"
       THEN IF s[i + 1] \in {NL, CR} THEN -1
            ELSE matchFrom(toks, k + 1, s, i + 1)
  ELSE IF s[i + 1] = toks[k] THEN matchFrom(toks, k + 1, s, i + 1)
  ELSE -1

\* The leftmost match among ends, ends[i] being the offset just after the
\* match that starts at offset i, or -1: [found, index, end).
firstMatch(ends) ==
  LET at == {i \in DOMAIN ends : ends[i] # -1}
  IN IF at = {} THEN [found |-> FALSE, index |-> -1, end |-> -1]
     ELSE [found |-> TRUE, index |-> MinOf(at), end |-> ends[MinOf(at)]]

\* String.prototype.match / RegExp.prototype.test without the g flag: the
\* leftmost match, as [found, index, end).
regexSearch(toks, s) ==
  firstMatch([i \in 0..Len(s) |-> matchFrom(toks, 1, s, i)])

\* s with the match m, if found, replaced by repl.
replaceMatch(s, m, repl) ==
  IF ~m.found THEN s
  ELSE SubSeq(s, 1, m.index) \o repl \o SubSeq(s, m.end + 1, Len(s))

\* s.replace(regex, repl) without the g flag: the leftmost match only.
replaceFirst(toks, s, repl) == replaceMatch(s, regexSearch(toks, s), repl)

\* s.replace(regex, repl) with the g flag: every match, left to right; after
\* an empty match the scan moves one character on.
RECURSIVE replaceAllFrom(_, _, _, _)
\* One turn of the scan at offset i <= Len(s), e the end of the match that
\* starts there, or -1.
replaceAllStep(toks, s, repl, i, e) ==
  IF e = -1
  THEN (IF i < Len(s) THEN <<s[i + 1]>> ELSE <<>>)
       \o replaceAllFrom(toks, s, repl, i + 1)
  ELSE IF e = i
       THEN repl \o (IF i < Len(s) THEN <<s[i + 1]>> ELSE <<>>)
            \o replaceAllFrom(toks, s, repl, i + 1)
  ELSE repl \o (IF e >= Len(s) THEN <<>> ELSE replaceAllFrom(toks, s, repl, e))

replaceAllFrom(toks, s, repl, i) ==
  IF i > Len(s) THEN <<>>
  ELSE replaceAllStep(toks, s, repl, i, matchFrom(toks, 1, s, i))

replaceAll(toks, s, repl) == replaceAllFrom(toks, s, repl, 0)

\* ------------------------------------------------------------ edit requests
\* Key names, in the order the pools below build their objects with.
EditKeys == {"lineNumber", "action", "text", "strMatch", "regexMatch",
             "startLine", "endLine", "content"}

\* An object with no own key.
EmptyEdit ==
  [keys |-> <<>>, tuple |-> FALSE, lineNumber |-> UndefNum,
   action |-> UndefAction, text |-> Undef, strMatch |-> Undef,
   regexMatch |-> Undef, startLine |-> UndefNum, endLine |-> UndefNum,
   content |-> Undef]

\* `k in edit`
hasKey(edit, k) == \E i \in 1..Len(edit.keys) : edit.keys[i] = k

\* edit[k] = v: a new key goes last, an old one keeps its place.
setKey(edit, k, v) ==
  [edit EXCEPT ![k] = v,
               !.keys = IF hasKey(edit, k) THEN @ ELSE Append(@, k)]

\* A string that is neither undefined nor empty.
truthy(s) == s # Undef /\ s # <<>>

\* {startLine, endLine, content}, then strMatch / regexMatch when given.
RangeEdit(s, e, c, sm, rm) ==
  LET base == setKey(setKey(setKey(EmptyEdit, "startLine", s), "endLine", e),
                     "content", c)
      withS == IF sm = Undef THEN base ELSE setKey(base, "strMatch", sm)
  IN IF rm = Undef THEN withS ELSE setKey(withS, "regexMatch", rm)

\* {lineNumber, action, text}; action and text only when given.
ActionEdit(n, a, t) ==
  LET base == setKey(EmptyEdit, "lineNumber", n)
      withA == IF a = UndefAction THEN base ELSE setKey(base, "action", a)
  IN IF t = Undef THEN withA ELSE setKey(withA, "text", t)

\* ------------------------------------------------------------------ errors
NoError ==
  [name |-> "none", msg |-> "", line |-> 0, match |-> <<>>, isRegex |-> FALSE,
   wrapped |-> FALSE]

\* new Error(msg), msg naming the line it is about.
PlainError(msg, line) ==
  [name |-> "Error", msg |-> msg, line |-> line, match |-> <<>>,
   isRegex |-> FALSE, wrapped |-> FALSE]

\* new RegExp(p) on a pattern that does not compile.
SyntaxError(p) ==
  [name |-> "SyntaxError", msg |-> "Invalid regular expression", line |-> 0,
   match |-> p, isRegex |-> TRUE, wrapped |-> FALSE]

MatchNotFoundError(line, match, isRegex) ==
  [name |-> "MatchNotFoundError", msg |-> "No match found", line |-> line,
   match |-> match, isRegex |-> isRegex, wrapped |-> FALSE]

\* ------------------------------------------------- FileEditor, both versions
\* constructor: the lines of the normalized content, each split into its
\* whitespace prefix and the rest.
buildLines(content) ==
  LET ls == splitLines(normalizeLineEndings(content))
  IN [i \in 1..Len(ls) |->
        [content |-> trimStart(ls[i]),
         indentation |-> SubSeq(ls[i], 1, getIndentationLevel(ls[i])),
         originalIndex |-> i - 1,
         isDeleted |-> FALSE]]

\* The lines joined without their whitespace prefixes.
renderBodies(lines) ==
  joinLines([i \in 1..Len(lines) |-> lines[i].content])

\* lines.map(l => l.indentation + l.content).join("\n")
renderLines(lines) ==
  joinLines([i \in 1..Len(lines) |-> lines[i].indentation \o lines[i].content])

\* createTwoFilesPatch is a library: a diff is the pair it is computed from.
createDiff(original, modified) ==
  [original |-> normalizeLineEndings(original), modified |-> modified]

\* --------------------------------------------- range-based FileEditor
\* validateRange: the error it throws, or NoError.
validateRange(edit, totalLines) ==
  IF edit.startLine > edit.endLine
  THEN PlainError("Invalid range: start line is greater than end line",
                  edit.startLine)
  ELSE IF edit.startLine < 1 \/ edit.endLine > totalLines
       THEN PlainError("Invalid line range", edit.startLine)
       ELSE NoError

\* addEdit after a passed validateRange: the request with content and
\* strMatch normalized (the caller's object is updated in place).
rangeNormalizeEdit(edit) ==
  LET c == IF truthy(edit.content)
           THEN setKey(edit, "content", normalizeLineEndings(edit.content))
           ELSE edit
  IN IF truthy(edit.strMatch)
     THEN setKey(c, "strMatch", normalizeLineEndings(edit.strMatch))
     ELSE c

\* The loop of editFile over addEdit: the first range error stops it.
rangeAddEdits(lines, edits) ==
  LET bad == {i \in 1..Len(edits) :
                validateRange(edits[i], Len(lines)) # NoError}
      n   == IF bad = {} THEN Len(edits) ELSE MinOf(bad) - 1
  IN [error |-> IF bad = {} THEN NoError
                ELSE validateRange(edits[MinOf(bad)], Len(lines)),
      edits |-> [i \in 1..Len(edits) |->
                   IF i <= n THEN rangeNormalizeEdit(edits[i]) ELSE edits[i]]]

\* Two match spans [start1, end1) and [start2, end2) as validateEdits
\* compares them.
spansOverlap(start1, end1, start2, end2) ==
  \/ (start1 <= start2 /\ end1 > start2)
  \/ (start2 <= start1 /\ end2 > start1)

\* validateEdits, the end of its regex branch: match1 and match2 are what
\* the two patterns match in line l.
overlapError(match1, match2, l) ==
  IF match1.found /\ match2.found
     /\ spansOverlap(match1.index, match1.end, match2.index, match2.end)
  THEN PlainError("Overlapping regex patterns", l)
  ELSE NoError

\* validateEdits, edit i reaching line l against the earlier edit j that is
\* already in lineUsage[l].
regexPairError(lines, edits, i, j, l) ==
  IF ~truthy(edits[j].regexMatch) THEN NoError
  ELSE IF ~regexCompiles(edits[i].regexMatch)
       THEN SyntaxError(edits[i].regexMatch)
  ELSE IF ~regexCompiles(edits[j].regexMatch)
       THEN SyntaxError(edits[j].regexMatch)
  ELSE overlapError(
         regexSearch(regexTokens(edits[i].regexMatch), lines[l].content),
         regexSearch(regexTokens(edits[j].regexMatch), lines[l].content), l)

\* The error at the least index of errs that holds one, or NoError.
firstError(errs) ==
  LET bad == {j \in DOMAIN errs : errs[j] # NoError}
  IN IF bad = {} THEN NoError ELSE errs[MinOf(bad)]

\* lineUsage[l] when validateEdits comes to edit i: the earlier edits that
\* reach line l.
lineEdits(edits, i, l) ==
  {j \in 1..(i - 1) : edits[j].startLine <= l /\ l <= edits[j].endLine}

\* A turn of validateEdits that lets any edit without regexMatch through.
regexUsageOnly(lines, edits, i, l) ==
  IF truthy(edits[i].regexMatch)
  THEN firstError([j \in lineEdits(edits, i, l) |->
                     regexPairError(lines, edits, i, j, l)])
  ELSE NoError

\* validateEdits, one turn of its inner loop: edit i at line l.
lineUsageError(lines, edits, i, l) ==
  IF truthy(edits[i].regexMatch)
  THEN firstError([j \in lineEdits(edits, i, l) |->
                     regexPairError(lines, edits, i, j, l)])
  ELSE IF \E j \in lineEdits(edits, i, l) : ~truthy(edits[j].regexMatch)
       THEN PlainError("Line is affected by multiple non-regex edits", l)
       ELSE NoError

\* The error of the first turn <<i, l>> of errs that holds one, edits in
\* order and, within an edit, lines in order; or NoError.
firstTurnError(errs) ==
  LET bad == {t \in DOMAIN errs : errs[t] # NoError}
  IN IF bad = {} THEN NoError
     ELSE errs[CHOOSE t \in bad : \A u \in bad :
                 t[1] < u[1] \/ (t[1] = u[1] /\ t[2] <= u[2])]

\* A validateEdits that meets no error in any batch.
validateNothing(lines, edits) == NoError

\* validateEdits: the first error its two loops meet, or NoError.
validateEdits(lines, edits) ==
  firstTurnError(
    [t \in {u \in (1..Len(edits)) \X (1..Len(lines)) :
              edits[u[1]].startLine <= u[2] /\ u[2] <= edits[u[1]].endLine}
       |-> lineUsageError(lines, edits, t[1], t[2])])

\* One line of newContent as preserveIndentation writes it.
reindent(line, baseIndentLevel, originalIndentation) ==
  originalIndentation
    \o spaces(IF getIndentationLevel(line) > baseIndentLevel
              THEN getIndentationLevel(line) - baseIndentLevel ELSE 0)
    \o trimStart(line)

\* preserveIndentation over the lines ls of newContent.
reindentLines(ls, originalIndentation) ==
  joinLines([i \in 1..Len(ls) |->
    reindent(ls[i], getIndentationLevel(ls[1]), originalIndentation)])

\* preserveIndentation
preserveIndentation(newContent, originalIndentation) ==
  reindentLines(splitLines(newContent), originalIndentation)

\* [error, value] of a replacement that went through.
replaced(indentation, text) ==
  [error |-> NoError, value |-> indentation \o trimStart(text)]

\* [error, value] of a replacement that threw.
threw(error) == [error |-> error, value |-> <<>>]

\* The pattern the flexible branch builds from the collapsed line:
\* flexMatch.replace(/\s+/g, "\\s+").
flexibleTokens(flexMatch) ==
  [i \in 1..Len(flexMatch) |->
     IF IsWS(flexMatch[i]) THEN "WS+"
     ELSE IF flexMatch[i] = "." THEN "ANY" ELSE flexMatch[i]]

\* applyMatchReplace, strMatch branch, after its four normalizations.
strMatchReplace(lineMetadata, edit, lineNumber, normalizedContent, normalizedMatch, flexMatch, flexTarget) ==
  IF ~includes(normalizedContent, normalizedMatch)
  THEN IF ~includes(flexMatch, flexTarget)
       THEN threw(MatchNotFoundError(lineNumber, edit.strMatch, FALSE))
       ELSE IF ~regexCompiles(flexMatch) THEN threw(SyntaxError(flexMatch))
       ELSE replaced(lineMetadata.indentation,
              replaceFirst(flexibleTokens(flexMatch), lineMetadata.content,
                           edit.content))
  ELSE IF ~regexCompiles(normalizedMatch)
       THEN threw(SyntaxError(normalizedMatch))
       ELSE replaced(lineMetadata.indentation,
              replaceAll(regexTokens(normalizedMatch), lineMetadata.content,
                         edit.content))

\* A strMatch branch that replaces the line without looking for strMatch.
strMatchIgnored(lineMetadata, edit, lineNumber) ==
  replaced(lineMetadata.indentation, edit.content)

\* applyMatchReplace, strMatch branch: [error, value].
applyStrMatch(lineMetadata, edit, lineNumber) ==
  strMatchReplace(lineMetadata, edit, lineNumber,
                  trim(lineMetadata.content), trim(edit.strMatch),
                  collapseWhitespace(trim(lineMetadata.content)),
                  collapseWhitespace(trim(edit.strMatch)))

\* applyMatchReplace, regexMatch branch with the compiled pattern.
regexMatchReplace(lineMetadata, edit, lineNumber, toks) ==
  IF ~regexSearch(toks, lineMetadata.content).found
  THEN threw(MatchNotFoundError(lineNumber, edit.regexMatch, TRUE))
  ELSE replaced(lineMetadata.indentation,
                replaceAll(toks, lineMetadata.content, edit.content))

\* applyMatchReplace, regexMatch branch: [error, value].
applyRegexMatch(lineMetadata, edit, lineNumber) ==
  IF ~regexCompiles(edit.regexMatch)
  THEN threw(PlainError("Invalid regex pattern", lineNumber))
  ELSE regexMatchReplace(lineMetadata, edit, lineNumber,
                         regexTokens(edit.regexMatch))

\* applyMatchReplace: [error, value], value the new text of the line.
applyMatchReplace(lineMetadata, edit, lineNumber) ==
  IF ~truthy(edit.strMatch) /\ ~truthy(edit.regexMatch)
  THEN [error |-> NoError,
        value |-> preserveIndentation(edit.content, lineMetadata.indentation)]
  ELSE IF truthy(edit.strMatch)
       THEN applyStrMatch(lineMetadata, edit, lineNumber)
       ELSE applyRegexMatch(lineMetadata, edit, lineNumber)

\* [...edits].sort((a, b) => b.startLine - a.startLine): stable, descending.
RECURSIVE sortByStartLineDesc(_)
sortByStartLineDesc(edits) ==
  IF Len(edits) = 0 THEN <<>>
  ELSE LET top  == MaxOf({edits[i].startLine : i \in 1..Len(edits)})
       IN SelectSeq(edits, LAMBDA e : e.startLine = top)
            \o sortByStartLineDesc(SelectSeq(edits, LAMBDA e : e.startLine # top))

\* A line of the working copy made from a rendered line.
asLine(text, originalIndex) ==
  [content |-> trimStart(text),
   indentation |-> SubSeq(text, 1, getIndentationLevel(text)),
   originalIndex |-> originalIndex, isDeleted |-> FALSE]

\* A splice that removes one line whatever the count.
spliceOne(arr, startIdx, count, items) == SubSeq(arr, 1, startIdx) \o items \o SubSeq(arr, startIdx + 2, Len(arr))

\* modifiedLines.splice(startIdx, count, ...newLines)
splice(arr, startIdx, count, items) ==
  SubSeq(arr, 1, startIdx) \o items
    \o SubSeq(arr, startIdx + count + 1, Len(arr))

\* The results the multi-line branch records for lines startLine..endLine.
rangeResults(edit, newLines) ==
  [i \in edit.startLine..edit.endLine |->
     [applied |-> TRUE,
      lineContent |-> IF i <= edit.startLine + Len(newLines) - 1
                      THEN newLines[i - edit.startLine + 1].indentation
                             \o newLines[i - edit.startLine + 1].content
                      ELSE <<>>,
      error |-> ""]]

\* applyEdits (range-based), the single-line branch once applyMatchReplace
\* has given r.
matchOutcome(lines, acc, edit, r) ==
  IF r.error # NoError
  THEN [error |-> r.error, lines |-> acc.lines,
        results |-> (edit.startLine :>
           [applied |-> FALSE,
            lineContent |-> lines[edit.startLine].indentation
                              \o lines[edit.startLine].content,
            error |-> r.error.msg]) @@ acc.results]
  ELSE [error |-> NoError,
        lines |-> [acc.lines EXCEPT ![edit.startLine] =
           asLine(r.value, acc.lines[edit.startLine].originalIndex)],
        results |-> (edit.startLine :>
           [applied |-> TRUE, lineContent |-> r.value, error |-> ""])
             @@ acc.results]

\* applyEdits (range-based), the multi-line branch: texts are the lines of
\* the re-indented content.
spliceOutcome(acc, edit, newLines) ==
  [error |-> NoError,
   lines |-> splice(acc.lines, edit.startLine - 1,
                    edit.endLine - edit.startLine + 1, newLines),
   results |-> rangeResults(edit, newLines) @@ acc.results]

\* The working-copy lines made of texts, numbered from firstIndex.
asLines(texts, firstIndex) ==
  [i \in 1..Len(texts) |-> asLine(texts[i], firstIndex + i - 1)]

\* applyEdits (range-based), one turn of the loop over sortedEdits:
\* [error, lines, results].
rangeApplyOne(lines, acc, edit) ==
  IF edit.startLine = edit.endLine
     /\ (truthy(edit.strMatch) \/ truthy(edit.regexMatch))
  THEN matchOutcome(lines, acc, edit,
         applyMatchReplace(acc.lines[edit.startLine], edit, edit.startLine))
  ELSE spliceOutcome(acc, edit,
         asLines(splitLines(preserveIndentation(edit.content,
                    acc.lines[edit.startLine].indentation)),
                 acc.lines[edit.startLine].originalIndex))

RECURSIVE rangeApplyLoop(_, _, _, _)
rangeApplyLoop(lines, sortedEdits, k, acc) ==
  IF k > Len(sortedEdits) \/ acc.error # NoError THEN acc
  ELSE rangeApplyLoop(lines, sortedEdits, k + 1,
                      rangeApplyOne(lines, acc, sortedEdits[k]))

\* applyEdits (range-based) once validateEdits has given invalid.
rangeApplyValidated(lines, edits, invalid) ==
  IF invalid # NoError
  THEN [error |-> invalid, lines |-> lines, results |-> <<>>]
  ELSE rangeApplyLoop(lines, sortByStartLineDesc(edits), 1,
                      [error |-> NoError, lines |-> lines, results |-> <<>>])

\* applyEdits (range-based): [error, lines, results]; on an error, lines is
\* the working copy as the edits before the failing one left it.
rangeApplyEdits(lines, edits) ==
  rangeApplyValidated(lines, edits, validateEdits(lines, edits))

\* The catch of the range-based editFile: a MatchNotFoundError goes on as it
\* is, any other error becomes Error("Failed to apply edits: " + message).
failedToApply(error) ==
  IF error.name = "MatchNotFoundError" THEN error
  ELSE [error EXCEPT !.name = "Error", !.wrapped = TRUE]

\* What the range-based editFile has when applyEdits went through:
\* modified is the content to write.
rangeDone(content, modified, results, edits) ==
  [error |-> NoError, modified |-> modified,
   diff |-> createDiff(content, modified), results |-> results,
   edits |-> edits]

\* What either editFile has when it throws.
editFailed(error, results, edits) ==
  [error |-> error, modified |-> <<>>, diff |-> createDiff(<<>>, <<>>),
   results |-> results, edits |-> edits]

\* The range-based editFile from applyEdits on.
rangeFinish(content, edits, applied) ==
  IF applied.error # NoError
  THEN editFailed(failedToApply(applied.error), applied.results, edits)
  ELSE rangeDone(content, renderLines(applied.lines), applied.results, edits)

\* The range-based editFile from the addEdit loop on.
rangeAddAndApply(content, lines, added) ==
  IF added.error # NoError
  THEN editFailed(added.error, <<>>, added.edits)
  ELSE rangeFinish(content, added.edits, rangeApplyEdits(lines, added.edits))

\* The range-based editFile on the lines of the content read.
rangeEditLines(content, lines, edits) ==
  rangeAddAndApply(content, lines, rangeAddEdits(lines, edits))

\* The synchronous part of the range-based editFile, from the content read
\* to the content to write: [error, modified, diff, results, edits], edits
\* being the caller's objects as addEdit leaves them.
rangeEditFile(content, edits) ==
  rangeEditLines(content, buildLines(content), edits)

\* -------------------------------------------- action-based FileEditor
\* results.set(lineNumber ?? 0, {lineNumber, status, message})
setResult(results, lineNumber, status, message) ==
  LET n == IF lineNumber = UndefNum THEN 0 ELSE lineNumber
  IN (n :> [lineNumber |-> n, status |-> status, message |-> message])
       @@ results

hasLegacyFields(edit) ==
  hasKey(edit, "startLine") \/ hasKey(edit, "endLine") \/ hasKey(edit, "content")

\* {lineNumber, action, text, strMatch, regexMatch} as normalizeLegacyEdit
\* writes it for a one-line legacy edit.
legacyReplace(startLine, content, strMatch, regexMatch) ==
  setKey(setKey(setKey(setKey(setKey(EmptyEdit,
    "lineNumber", startLine), "action", "replace_content_at_line"),
    "text", content), "strMatch", strMatch), "regexMatch", regexMatch)

\* normalizeLegacyEdit: [edit, isNull, editsToApply, results]; isNull when
\* it returns null.
normalizeLegacyEdit(st, edit) ==
  LET startLine == edit.startLine
      endLine == IF edit.endLine = UndefNum \/ edit.endLine = 0
                 THEN startLine ELSE edit.endLine
      content == IF truthy(edit.content) THEN edit.content ELSE <<>>
      invalid == [edit |-> edit, isNull |-> TRUE,
                  editsToApply |-> st.editsToApply,
                  results |-> setResult(st.results, edit.lineNumber, "FAILED",
                     "Invalid legacy edit format. Cannot convert to new format.")]
  IN IF ~hasKey(edit, "startLine") THEN invalid
     ELSE IF startLine = UndefNum \/ startLine = 0
     THEN [edit |-> edit, isNull |-> TRUE, editsToApply |-> st.editsToApply,
           results |-> setResult(st.results, edit.lineNumber, "FAILED",
                                 "Invalid startLine.")]
     ELSE IF startLine = endLine
     THEN [edit |-> legacyReplace(startLine, content, edit.strMatch,
                                  edit.regexMatch),
           isNull |-> FALSE, editsToApply |-> st.editsToApply,
           results |-> st.results]
     ELSE IF content # <<>>
     THEN [edit |-> edit, isNull |-> TRUE,
           editsToApply |-> st.editsToApply
              \o <<ActionEdit(startLine, "replace_content_at_line", content)>>
              \o [i \in 1..(IF endLine > startLine THEN endLine - startLine
                             ELSE 0) |->
                    ActionEdit(startLine + i, "delete_line", Undef)],
           results |-> st.results]
     ELSE invalid

\* normalizeEditContent
normalizeEditContent(content, baseIndentation) ==
  LET ls == splitLines(content)
  IN IF content = <<>> THEN <<>>
     ELSE IF Len(ls) = 1 THEN normalizeLineEndings(content)
     ELSE normalizeLineEndings(
            ls[1] \o <<NL>>
              \o joinLines([i \in 1..(Len(ls) - 1) |->
                              baseIndentation \o ls[i + 1]]))

\* The caller's object as addEdit leaves it past its checks: text and
\* strMatch normalized in place.
actionNormalizeEdit(st, edit, lineNumber) ==
  LET withText == IF truthy(edit.text)
                  THEN setKey(edit, "text",
                         normalizeEditContent(edit.text,
                           st.lines[lineNumber].indentation))
                  ELSE edit
  IN IF truthy(edit.strMatch)
     THEN setKey(withText, "strMatch", normalizeLineEndings(edit.strMatch))
     ELSE withText

\* addEdit from validateRegexPattern on, normalized being the request as
\* the lines above it left it.
actionAddValid(st, lineNumber, normalized) ==
  IF truthy(normalized.regexMatch) /\ ~regexCompiles(normalized.regexMatch)
  THEN [error |-> PlainError("Invalid regex pattern", lineNumber),
        editsToApply |-> st.editsToApply, edit |-> normalized,
        results |-> st.results]
  ELSE [error |-> NoError,
        editsToApply |-> Append(st.editsToApply, normalized),
        edit |-> normalized, results |-> st.results]

\* addEdit ending in a FAILED result.
actionAddFailed(st, edit, lineNumber, message) ==
  [error |-> NoError, editsToApply |-> st.editsToApply, edit |-> edit,
   results |-> setResult(st.results, lineNumber, "FAILED", message)]

\* addEdit past the legacy mapping, lineNumber being edit.lineNumber ?? 0.
actionAddAt(st, edit, lineNumber) ==
  IF edit.action = UndefAction
  THEN actionAddFailed(st, edit, lineNumber,
                       "Action is required but not provided.")
  ELSE IF lineNumber <= 0 \/ lineNumber > Len(st.lines)
  THEN actionAddFailed(st, edit, lineNumber, "Line number is out of range.")
  ELSE actionAddValid(st, lineNumber,
                      actionNormalizeEdit(st, edit, lineNumber))

\* addEdit past the legacy mapping: [error, editsToApply, results, edit],
\* edit being the caller's object as addEdit leaves it.
actionAddChecked(st, edit) ==
  actionAddAt(st, edit, IF edit.lineNumber = UndefNum THEN 0
                        ELSE edit.lineNumber)

\* addEdit of a request with legacy fields, legacy being what
\* normalizeLegacyEdit made of it.
actionAddLegacy(st, edit, legacy) ==
  IF ~legacy.isNull
  THEN [error |-> NoError,
        editsToApply |-> Append(st.editsToApply, legacy.edit),
        edit |-> edit, results |-> st.results]
  ELSE actionAddChecked([st EXCEPT !.editsToApply = legacy.editsToApply,
                                   !.results = legacy.results], edit)

\* addEdit (action-based) on the editor state st = [lines, editsToApply,
\* results].
actionAddEdit(st, edit) ==
  IF hasLegacyFields(edit)
  THEN actionAddLegacy(st, edit, normalizeLegacyEdit(st, edit))
  ELSE actionAddChecked(st, edit)

\* The first line with that originalIndex, deleted or not.
findDeletedToo(ms, targetOriginalIndex) ==
  LET hit == {i \in 1..Len(ms) : ms[i].originalIndex = targetOriginalIndex}
  IN IF hit = {} THEN 0 ELSE MinOf(hit)

\* The line looked for at the place it had in the file read, whatever was
\* inserted above it since.
findByPosition(ms, targetOriginalIndex) ==
  IF targetOriginalIndex >= 0 /\ targetOriginalIndex < Len(ms)
  THEN targetOriginalIndex + 1 ELSE 0

\* Array.prototype.find followed by indexOf: the 1-based place of the first
\* live line with that originalIndex, 0 when there is none.
findLine(ms, targetOriginalIndex) ==
  LET hit == {i \in 1..Len(ms) :
                ms[i].originalIndex = targetOriginalIndex /\ ~ms[i].isDeleted}
  IN IF hit = {} THEN 0 ELSE MinOf(hit)

\* The 0-based index of the first live line whose originalIndex is greater,
\* or the length of the array.
nearestAfter(ms, targetOriginalIndex) ==
  LET hit == {i \in 1..Len(ms) :
                ms[i].originalIndex > targetOriginalIndex /\ ~ms[i].isDeleted}
  IN IF hit = {} THEN Len(ms) ELSE MinOf(hit) - 1

\* ms[i]?.indentation || "" for a 0-based i.
indentationAt(ms, i) == IF i >= 0 /\ i < Len(ms) THEN ms[i + 1].indentation ELSE <<>>

insertedLine(text, indentation) ==
  [content |-> text, indentation |-> indentation, originalIndex |-> 0 - 1,
   isDeleted |-> FALSE]

\* applyEdits (action-based), one turn of the loop: acc = [lines, results].
actionApplyOne(totalLines, acc, edit) ==
  LET ms == acc.lines
      lineNumber == IF edit.lineNumber = UndefNum THEN 0 ELSE edit.lineNumber
      targetOriginalIndex ==
        (IF edit.lineNumber = UndefNum THEN 1 ELSE edit.lineNumber) - 1
      action == IF edit.action = UndefAction THEN "replace_content_at_line"
                ELSE edit.action
      current == findLine(ms, targetOriginalIndex)
      insertAtIndex == IF lineNumber = 1 THEN 0
                       ELSE IF current # 0 THEN current - 1
                       ELSE nearestAfter(ms, targetOriginalIndex)
      afterIndex == IF lineNumber > totalLines THEN Len(ms)
                    ELSE IF current # 0 THEN current
                    ELSE nearestAfter(ms, targetOriginalIndex)
      ownIndentation == IF current # 0 THEN ms[current].indentation ELSE <<>>
  IN IF action \in {"insert_before", "insert_after",
                    "replace_content_at_line"} /\ edit.text = Undef
     THEN [acc EXCEPT !.results = setResult(@, lineNumber, "FAILED",
                                            "Text is required.")]
     ELSE IF action = "insert_before"
     THEN [lines |-> splice(ms, insertAtIndex, 0,
              <<insertedLine(edit.text,
                  IF ownIndentation # <<>> THEN ownIndentation
                  ELSE indentationAt(ms, IF insertAtIndex > 0
                                         THEN insertAtIndex - 1 ELSE 0))>>),
           results |-> setResult(acc.results, lineNumber, "APPLIED",
                                 "Inserted text before line.")]
     ELSE IF action = "insert_after"
     THEN [lines |-> splice(ms, afterIndex, 0,
              <<insertedLine(edit.text,
                  IF ownIndentation # <<>> THEN ownIndentation
                  ELSE IF afterIndex > 0 THEN indentationAt(ms, afterIndex - 1)
                  ELSE <<>>)>>),
           results |-> setResult(acc.results, lineNumber, "APPLIED",
                                 "Inserted text after line.")]
     ELSE IF action = "delete_line"
     THEN IF current # 0
          THEN [lines |-> [ms EXCEPT ![current].isDeleted = TRUE],
                results |-> setResult(acc.results, lineNumber, "APPLIED",
                                      "Line deleted.")]
          ELSE [acc EXCEPT !.results = setResult(@, lineNumber, "SKIPPED",
                                     "Line already deleted or not found.")]
     ELSE IF action = "replace_content_at_line"
     THEN IF current # 0
          THEN [lines |-> [ms EXCEPT ![current].content = edit.text],
                results |-> setResult(acc.results, lineNumber, "APPLIED",
                                      "Line content replaced.")]
          ELSE [acc EXCEPT !.results = setResult(@, lineNumber, "SKIPPED",
                      "Line for replacement not found or already deleted.")]
     ELSE [acc EXCEPT !.results = setResult(@, lineNumber, "FAILED",
                                            "Unsupported action")]

RECURSIVE actionApplyLoop(_, _, _, _)
actionApplyLoop(totalLines, editsToApply, k, acc) ==
  IF k > Len(editsToApply) THEN acc
  ELSE actionApplyLoop(totalLines, editsToApply, k + 1,
                       actionApplyOne(totalLines, acc, editsToApply[k]))

\* The end of applyEdits (action-based): [content, results].
actionRender(done) ==
  [content |-> renderLines(SelectSeq(done.lines, LAMBDA l : ~l.isDeleted)),
   results |-> done.results]

\* applyEdits (action-based): [content, results].
actionApplyEdits(st) ==
  actionRender(actionApplyLoop(Len(st.lines), st.editsToApply, 1,
                               [lines |-> st.lines, results |-> st.results]))

\* The editor and the caller's array after addEdit(edits[k]) gave r.
actionAdded(st, k, r) ==
  [error |-> r.error, lines |-> st.lines, editsToApply |-> r.editsToApply,
   results |-> r.results, edits |-> [st.edits EXCEPT ![k] = r.edit]]

\* The loop of editFile over addEdit: [error, lines, editsToApply, results,
\* edits]; the first thrown error stops it.
RECURSIVE actionAddLoop(_, _, _)
actionAddLoop(st, edits, k) ==
  IF k > Len(edits) \/ st.error # NoError THEN st
  ELSE actionAddLoop(actionAdded(st, k, actionAddEdit(st, edits[k])),
                     edits, k + 1)

\* What the action-based editFile has when applyEdits is done.
actionDone(content, applied, edits) ==
  [error |-> NoError, modified |-> applied.content,
   diff |-> createDiff(content, applied.content),
   results |-> applied.results, edits |-> edits]

\* The action-based editFile from the addEdit loop on.
actionFinish(content, added) ==
  IF added.error # NoError
  THEN editFailed(added.error, added.results, added.edits)
  ELSE actionDone(content, actionApplyEdits(added), added.edits)

\* The synchronous part of the action-based editFile, from the content read
\* to the content to write: [error, modified, diff, results, edits].
actionEditFile(content, edits) ==
  actionFinish(content,
    actionAddLoop([error |-> NoError, lines |-> buildLines(content),
                   editsToApply |-> <<>>, results |-> <<>>, edits |-> edits],
                  edits, 1))

\* ------------------------------------------------------------------ inputs
\* File contents the runs start from: "a b\n  ab\nb", "a  b\n a", "ab\n".
InitContents ==
  { <<"a", " ", "b", NL, " ", " ", "a", "b", NL, "b">>,
    <<"a", " ", " ", "b", NL, " ", "a">>,
    <<"a", "b", NL>> }

FilePath == "/f"
Paths == {"/f", "/g"}

\* Requests of the startLine/endLine/content shape handed to the range-based
\* editFile.
RangePool ==
  { RangeEdit(1, 1, <<"b">>, Undef, Undef),
    RangeEdit(2, 2, <<"a">>, Undef, Undef),
    RangeEdit(1, 2, <<"b", NL, " ", "a">>, Undef, Undef),
    RangeEdit(2, 1, <<"a">>, Undef, Undef),
    RangeEdit(3, 3, <<"a">>, Undef, Undef),
    RangeEdit(0, 1, <<"a">>, Undef, Undef),
    RangeEdit(1, 1, <<"b">>, <<"a", " ", "b">>, Undef),
    RangeEdit(2, 2, <<"a">>, <<"b", " ">>, Undef),
    RangeEdit(1, 1, <<"b">>, <<"b", "b">>, Undef),
    RangeEdit(1, 1, <<"b">>, Undef, <<"a", ".">>),
    RangeEdit(1, 1, <<"a">>, Undef, <<".", "b">>),
    RangeEdit(2, 2, <<"a">>, Undef, <<"b", "b">>),
    RangeEdit(1, 1, <<"a">>, Undef, <<"(">>),
    RangeEdit(2, 2, <<" ", "b", NL, "a">>, Undef, Undef),
    RangeEdit(1, 2, <<"a">>, Undef, Undef) }

\* Requests handed to the action-based editFile: the lineNumber/action/text
\* shape and the legacy shape it still accepts.
ActionPool ==
  { ActionEdit(1, "insert_before", <<"b">>),
    ActionEdit(2, "insert_before", <<"b">>),
    ActionEdit(2, "insert_after", <<"a">>),
    ActionEdit(1, "delete_line", Undef),
    ActionEdit(2, "delete_line", Undef),
    ActionEdit(2, "replace_content_at_line", <<"a", NL, "b">>),
    ActionEdit(1, UndefAction, <<"b">>),
    ActionEdit(9, "delete_line", Undef),
    ActionEdit(0, "insert_before", <<"a">>),
    setKey(ActionEdit(1, "replace_content_at_line", <<"b">>),
           "regexMatch", <<"(">>),
    RangeEdit(2, 2, <<"b">>, Undef, Undef),
    RangeEdit(9, 9, <<"b">>, Undef, Undef),
    RangeEdit(2, 2, <<"b">>, <<"b", "b">>, Undef),
    RangeEdit(1, 2, <<"b">>, Undef, Undef) }

\* Every batch of at most MaxEdits requests of a pool, the empty one included.
BatchesOf(pool) == UNION {[1..n -> pool] : n \in 0..MaxEdits}

EditorVersions == {"action", "range"}

PoolOf(version) == IF version = "action" THEN ActionPool ELSE RangePool

\* ------------------------------------------------------------ StateManager
NumKeys == {"lineNumber", "startLine", "endLine"}

\* Whether edit[k] is a value JSON.stringify writes (not undefined).
definedAt(edit, k) ==
  IF k \in NumKeys THEN edit[k] # UndefNum
  ELSE IF k = "action" THEN edit[k] # UndefAction
  ELSE edit[k] # Undef

\* JSON.stringify of one object: its defined members, in key order.
jsonOfEdit(edit) ==
  LET ks == SelectSeq(edit.keys, LAMBDA k : definedAt(edit, k))
  IN [i \in 1..Len(ks) |->
        [key |-> ks[i],
         num |-> IF ks[i] \in NumKeys THEN edit[ks[i]] ELSE 0,
         str |-> IF ks[i] \in NumKeys THEN <<>>
                 ELSE IF ks[i] = "action" THEN <<edit.action>>
                 ELSE edit[ks[i]]]]

\* s?.trim()
optTrim(s) == IF s = Undef THEN Undef ELSE trim(s)

\* {...edit, strMatch: edit.strMatch?.trim(), regexMatch: edit.regexMatch?.trim()}
withTrimmedMatches(edit) ==
  setKey(setKey(edit, "strMatch", optTrim(edit.strMatch)),
         "regexMatch", optTrim(edit.regexMatch))

\* The keys generateStateId sorts by.
sortStart(a) == IF a.startLine # UndefNum THEN a.startLine
                ELSE IF a.lineNumber # UndefNum THEN a.lineNumber ELSE 0
sortEnd(a) == IF a.endLine # UndefNum THEN a.endLine
              ELSE IF a.lineNumber # UndefNum THEN a.lineNumber
              ELSE sortStart(a)

editBefore(a, b) ==
  sortStart(a) < sortStart(b)
    \/ (sortStart(a) = sortStart(b) /\ sortEnd(a) < sortEnd(b))

\* [...edits].sort(by start line, then end line): stable, ascending.
RECURSIVE sortForId(_)
sortForId(edits) ==
  IF Len(edits) = 0 THEN <<>>
  ELSE LET firsts == {i \in 1..Len(edits) :
                        \A j \in 1..Len(edits) : ~editBefore(edits[j], edits[i])}
           i == MinOf(firsts)
       IN <<edits[i]>>
            \o sortForId(SubSeq(edits, 1, i - 1) \o SubSeq(edits, i + 1, Len(edits)))

\* generateStateId: the first 8 hex digits of the SHA-256 of the JSON text
\* stand for that text (distinct texts of the model get distinct ids).
generateStateId(path, edits) ==
  LET sortedEdits == sortForId(edits)
  IN [path |-> path,
      edits |-> [i \in 1..Len(sortedEdits) |->
                   jsonOfEdit(withTrimmedMatches(sortedEdits[i]))]]

\* saveState's map over edits: a tuple [start, end, content, strMatch?]
\* becomes an object, an object is copied with its matches trimmed.
normalizeForSave(edit) ==
  IF edit.tuple
  THEN setKey(setKey(setKey(setKey(EmptyEdit, "startLine", edit.startLine),
         "endLine", edit.endLine), "content", edit.content),
         "strMatch", optTrim(edit.strMatch))
  ELSE withTrimmedMatches(edit)

\* A cleanup that also drops the entries whose age is exactly TTL.
cleanupEager(map, clock, ttl) ==
  LET live == {id \in DOMAIN map : ~(clock - map[id].timestamp >= ttl)}
  IN [id \in live |-> map[id]]

\* cleanup: the map without the entries older than TTL.
cleanup(map, clock, ttl) ==
  LET live == {id \in DOMAIN map : ~(clock - map[id].timestamp > ttl)}
  IN [id \in live |-> map[id]]

\* this.states.delete(id)
mapDelete(map, id) == [k \in DOMAIN map \ {id} |-> map[k]]

\* this.states.set(id, entry)
mapSet(map, id, entry) ==
  [k \in DOMAIN map \cup {id} |-> IF k = id THEN entry ELSE map[k]]

\* A saveState that leaves an entry it finds under the id as it is.
saveKeepingOld(map, clock, path, normalizedEdits, stateId) ==
  [id |-> stateId,
   map |-> IF stateId \in DOMAIN map THEN map
           ELSE mapSet(map, stateId,
                       [path |-> path, edits |-> normalizedEdits,
                        timestamp |-> clock])]

\* saveState from generateStateId on.
saveNormalized(map, clock, path, normalizedEdits, stateId) ==
  [id |-> stateId,
   map |-> mapSet(map, stateId,
                  [path |-> path, edits |-> normalizedEdits,
                   timestamp |-> clock])]

\* saveState from its map over edits on, map being the states cleanup left.
saveCleaned(map, clock, path, normalizedEdits) ==
  saveNormalized(map, clock, path, normalizedEdits,
                 generateStateId(path, normalizedEdits))

\* saveState: [id, map].
saveState(map, clock, ttl, path, edits) ==
  saveCleaned(cleanup(map, clock, ttl), clock, path,
              [i \in 1..Len(edits) |-> normalizeForSave(edits[i])])

\* A getState that returns whatever the map holds, however old.
getStateAnyAge(map, clock, ttl, stateId) ==
  IF stateId \in DOMAIN map
  THEN [found |-> TRUE, state |-> map[stateId], map |-> map]
  ELSE [found |-> FALSE,
        state |-> [path |-> "", edits |-> <<>>, timestamp |-> 0],
        map |-> map]

\* getState on the states cleanup left: [found, state, map]; state is
\* meaningful when found.
getCleaned(cleaned, clock, ttl, stateId) ==
  IF stateId \in DOMAIN cleaned
     /\ clock - cleaned[stateId].timestamp <= ttl
  THEN [found |-> TRUE, state |-> cleaned[stateId], map |-> cleaned]
  ELSE [found |-> FALSE,
        state |-> [path |-> "", edits |-> <<>>, timestamp |-> 0],
        map |-> mapDelete(cleaned, stateId)]

\* getState: [found, state, map].
getState(map, clock, ttl, stateId) ==
  getCleaned(cleanup(map, clock, ttl), clock, ttl, stateId)

\* A deleteState that stops after cleanup.
deleteNothing(map, clock, ttl, stateId) == cleanup(map, clock, ttl)

\* deleteState: the map after it.
deleteState(map, clock, ttl, stateId) ==
  mapDelete(cleanup(map, clock, ttl), stateId)

\* ------------------------------------------------------------- the program
\* disk          the files, by path
\* editorVersion which FileEditor of utils/fileEditor.ts the build runs
\* states        StateManager.states: id -> [path, edits, timestamp]
\* now           Date.now()
\* TTL           StateManager.TTL
\* calls         the pending editFile / approveEdit calls, by slot
\* last          what the last saveState / getState / deleteState was given
\*               and returned
\* savedAt       history: id -> time of the last saveState that returned id,
\*               for the ids no deleteState was called on since
\* approved      history: id -> whether the file changed, for the ids an
\*               approveEdit has applied and no saveState returned since
VARIABLES disk, editorVersion, states, now, TTL, calls, last, savedAt,
          approved

vars ==
  <<disk, editorVersion, states, now, TTL, calls, last, savedAt, approved>>

Slots == {1, 2}

\* An id no saveState of the model returns.
UnknownId == [path |-> "/none", edits |-> <<>>]

NoState == [path |-> "", edits |-> <<>>, timestamp |-> 0]

IdleCall ==
  [op |-> "none", pc |-> "idle", path |-> "", edits |-> <<>>,
   dryRun |-> FALSE, stateId |-> UnknownId, before |-> <<>>,
   modified |-> <<>>, diff |-> createDiff(<<>>, <<>>), results |-> <<>>,
   error |-> NoError]

\* at: the clock the operation read; input: the <<path, edits>> saveState was
\* given; replaced: the timestamp of the entry saveState found under the id
\* it returned.
NoLast ==
  [op |-> "none", id |-> UnknownId, found |-> FALSE, state |-> NoState,
   at |-> 0, input |-> <<>>, replaced |-> UndefNum]

\* new Error("Invalid or expired state ID")
InvalidStateError == PlainError("Invalid or expired state ID", 0)

\* editFile between its two awaits, by the FileEditor the build runs.
editFileSync(version, content, edits) ==
  IF version = "action" THEN actionEditFile(content, edits)
  ELSE rangeEditFile(content, edits)

\* An editFile that awaits fs.writeFile whether the run is dry or not.
afterApplyWriting(error, dryRun) ==
  IF error # NoError THEN "rejected" ELSE "write"

\* Where editFile goes once applyEdits and createDiff are done: it throws,
\* returns (dry run) or awaits fs.writeFile.
afterApply(error, dryRun) ==
  IF error # NoError THEN "rejected"
  ELSE IF dryRun THEN "resolved" ELSE "write"

\* editFile(path, edits, dryRun) up to `await fs.readFile`.
CallEditFile(c, path, edits, dryRun) ==
  /\ calls[c].pc = "idle"
  /\ calls' = [calls EXCEPT ![c] =
       [IdleCall EXCEPT !.op = "editFile", !.pc = "read", !.path = path,
                        !.edits = edits, !.dryRun = dryRun]]
  /\ UNCHANGED <<disk, editorVersion, states, now, TTL, last, savedAt,
                 approved>>

\* approveEdit once getState has returned g.
Approving(c, stateId, g) ==
  /\ states' = g.map
  /\ calls' = [calls EXCEPT ![c] =
       IF g.found
       THEN [IdleCall EXCEPT !.op = "approveEdit", !.pc = "read",
                             !.path = g.state.path, !.edits = g.state.edits,
                             !.stateId = stateId]
       ELSE [IdleCall EXCEPT !.op = "approveEdit", !.pc = "rejected",
                             !.stateId = stateId,
                             !.error = InvalidStateError]]
  /\ UNCHANGED <<disk, editorVersion, now, TTL, last, savedAt, approved>>

\* approveEdit(stateId, stateManager) up to the `await fs.readFile` of the
\* editFile it calls, or to its throw when getState returns undefined.
ApproveCall(c, stateId) ==
  /\ calls[c].pc = "idle"
  /\ Approving(c, stateId, getState(states, now, TTL, stateId))

\* The entry of the map whose edits array editFile was handed: addEdit
\* writes into those objects.
sharesEdits(map, call) ==
  /\ call.op = "approveEdit"
  /\ call.stateId \in DOMAIN map
  /\ map[call.stateId].edits = call.edits

\* The call once editFile, having read `before`, is at its throw, its
\* return or its `await fs.writeFile` with r.
readCall(call, before, r) ==
  [call EXCEPT !.pc = afterApply(r.error, call.dryRun), !.before = before,
               !.edits = r.edits, !.modified = r.modified, !.diff = r.diff,
               !.results = r.results, !.error = r.error]

\* The map once addEdit has written into the objects it was handed.
readStates(map, call, r) ==
  IF sharesEdits(map, call)
  THEN [map EXCEPT ![call.stateId].edits = r.edits]
  ELSE map

ReadResume(c, r) ==
  /\ calls' = [calls EXCEPT ![c] = readCall(calls[c], disk[calls[c].path], r)]
  /\ states' = readStates(states, calls[c], r)
  /\ UNCHANGED <<disk, editorVersion, now, TTL, last, savedAt, approved>>

\* fs.readFile resolves: editFile runs to its throw, its return or its
\* `await fs.writeFile`.
ReadDone(c) ==
  /\ calls[c].pc = "read"
  /\ ReadResume(c, editFileSync(editorVersion, disk[calls[c].path],
                                calls[c].edits))

\* fs.writeFile resolves: editFile returns {diff, results}; approveEdit then
\* deletes the state and returns the diff.
WriteDone(c) ==
  LET call == calls[c]
  IN /\ call.pc = "write"
     /\ disk' = [disk EXCEPT ![call.path] = call.modified]
     /\ calls' = [calls EXCEPT ![c].pc = "resolved"]
     /\ states' = IF call.op = "approveEdit"
                  THEN deleteState(states, now, TTL, call.stateId)
                  ELSE states
     /\ savedAt' = IF call.op = "approveEdit"
                   THEN mapDelete(savedAt, call.stateId)
                   ELSE savedAt
     /\ approved' = IF call.op = "approveEdit"
                    THEN mapSet(approved, call.stateId,
                                call.modified # call.before)
                    ELSE approved
     /\ UNCHANGED <<editorVersion, now, TTL, last>>

\* The caller has the outcome; the slot is free for the next call.
Return(c) ==
  /\ calls[c].pc \in {"resolved", "rejected"}
  /\ calls' = [calls EXCEPT ![c] = IdleCall]
  /\ UNCHANGED <<disk, editorVersion, states, now, TTL, last, savedAt,
                 approved>>

\* saveState(path, edits) has returned r; watched: whether last keeps what
\* the call was given and returned.
Saved(path, edits, watched, r) ==
  /\ states' = r.map
  /\ last' = IF watched
             THEN [op |-> "saveState", id |-> r.id, found |-> TRUE,
                   state |-> r.map[r.id], at |-> now,
                   input |-> <<path, edits>>,
                   replaced |-> IF r.id \in DOMAIN states
                                THEN states[r.id].timestamp ELSE UndefNum]
             ELSE last
  /\ savedAt' = mapSet(savedAt, r.id, now)
  /\ approved' = mapDelete(approved, r.id)
  /\ UNCHANGED <<disk, editorVersion, now, TTL, calls>>

\* stateManager.saveState(path, edits)
SaveState(path, edits, watched) ==
  Saved(path, edits, watched, saveState(states, now, TTL, path, edits))

\* getState(stateId) has returned g.
Got(stateId, g) ==
  /\ states' = g.map
  /\ last' = [NoLast EXCEPT !.op = "getState", !.id = stateId,
                            !.found = g.found, !.state = g.state, !.at = now]
  /\ UNCHANGED <<disk, editorVersion, now, TTL, calls, savedAt, approved>>

\* stateManager.getState(stateId)
GetState(stateId) == Got(stateId, getState(states, now, TTL, stateId))

\* stateManager.deleteState(stateId); watched: whether last keeps what the
\* call was given.
DeleteState(stateId, watched) ==
  /\ states' = deleteState(states, now, TTL, stateId)
  /\ last' = IF watched
             THEN [NoLast EXCEPT !.op = "deleteState", !.id = stateId,
                                 !.at = now]
             ELSE last
  /\ savedAt' = mapDelete(savedAt, stateId)
  /\ UNCHANGED <<disk, editorVersion, now, TTL, calls, approved>>

\* The clock moves on.
Tick ==
  /\ now < MaxTime
  /\ now' = now + 1
  /\ UNCHANGED <<disk, editorVersion, states, TTL, calls, last, savedAt,
                 approved>>

\* ------------------------------------------------- one editFile call
\* The file holds any of InitContents; the build runs either FileEditor; the
\* StateManager is empty.
InitEdit ==
  /\ \E content \in InitContents : disk = [p \in Paths |-> content]
  /\ editorVersion \in EditorVersions
  /\ states = <<>>
  /\ now = 0
  /\ TTL = MaxTTL
  /\ calls = [c \in Slots |-> IdleCall]
  /\ last = NoLast
  /\ savedAt = <<>>
  /\ approved = <<>>

NextEdit ==
  \/ \E edits \in BatchesOf(PoolOf(editorVersion)), dryRun \in BOOLEAN :
       CallEditFile(1, FilePath, edits, dryRun)
  \/ ReadDone(1)
  \/ WriteDone(1)

SpecEdit == InitEdit /\ [][NextEdit]_vars

\* ------------------------------------- inserts and deletes by line number
\* "a\n b\nc" and " a\nb".
InsertContents ==
  { <<"a", NL, " ", "b", NL, "c">>, <<" ", "a", NL, "b">> }

\* insert_before "x", insert_after " y" and delete_line at lines 1 to 3.
InsertPool ==
  UNION {{ActionEdit(n, "insert_before", <<"x">>),
          ActionEdit(n, "insert_after", <<" ", "y">>),
          ActionEdit(n, "delete_line", Undef)} : n \in 1..3}

InitInsert ==
  /\ \E content \in InsertContents : disk = [p \in Paths |-> content]
  /\ editorVersion = "action"
  /\ states = <<>>
  /\ now = 0
  /\ TTL = MaxTTL
  /\ calls = [c \in Slots |-> IdleCall]
  /\ last = NoLast
  /\ savedAt = <<>>
  /\ approved = <<>>

NextInsert ==
  \/ \E edits \in BatchesOf(InsertPool), dryRun \in BOOLEAN :
       CallEditFile(1, FilePath, edits, dryRun)
  \/ ReadDone(1)
  \/ WriteDone(1)

SpecInsert == InitInsert /\ [][NextInsert]_vars

\* ----------------------------------------------- editFile with no edits
\* Every file content of at most MaxLen characters among a letter, the
\* space, LF and CR.
RoundContents == UNION {[1..n -> {"a", " ", NL, CR}] : n \in 0..MaxLen}

InitRound ==
  /\ \E content \in RoundContents : disk = [p \in Paths |-> content]
  /\ editorVersion \in EditorVersions
  /\ states = <<>>
  /\ now = 0
  /\ TTL = MaxTTL
  /\ calls = [c \in Slots |-> IdleCall]
  /\ last = NoLast
  /\ savedAt = <<>>
  /\ approved = <<>>

NextRound ==
  \/ \E dryRun \in BOOLEAN : CallEditFile(1, FilePath, <<>>, dryRun)
  \/ ReadDone(1)
  \/ WriteDone(1)

SpecRound == InitRound /\ [][NextRound]_vars

\* ------------------------------------------------- the StateManager alone
\* {content, startLine, endLine}: the keys of RangeEdit(s, e, c) in another
\* order.
ContentFirstEdit(s, e, c) ==
  setKey(setKey(setKey(EmptyEdit, "content", c), "startLine", s),
         "endLine", e)

\* The tuple [s, e, c].
TupleEdit(s, e, c) ==
  [EmptyEdit EXCEPT !.tuple = TRUE, !.startLine = s, !.endLine = e,
                    !.content = c]

\* The <<path, edits>> saveState is called with.
CacheInputs ==
  { <<"/f", <<RangeEdit(2, 2, <<"a">>, Undef, Undef)>>>>,
    <<"/f", <<ContentFirstEdit(2, 2, <<"a">>)>>>>,
    <<"/f", <<TupleEdit(2, 2, <<"a">>)>>>>,
    <<"/g", <<RangeEdit(2, 2, <<"a">>, Undef, Undef)>>>>,
    <<"/f", <<RangeEdit(2, 2, <<"a">>, Undef, Undef),
              RangeEdit(1, 1, <<"b">>, <<" ", "a">>, Undef)>>>> }

\* The ids saveState returns for inputs, and one it never returns.
IdsOf(inputs) ==
  {saveState(<<>>, 0, 1, in[1], in[2]).id : in \in inputs} \cup {UnknownId}

\* The ids the StateManager is asked for.
CacheIds == IdsOf(CacheInputs)

InitCache ==
  /\ disk = [p \in Paths |-> <<>>]
  /\ editorVersion = "range"
  /\ states = <<>>
  /\ now = 0
  /\ TTL \in 1..MaxTTL
  /\ calls = [c \in Slots |-> IdleCall]
  /\ last = NoLast
  /\ savedAt = <<>>
  /\ approved = <<>>

NextCache ==
  \/ \E in \in CacheInputs : SaveState(in[1], in[2], TRUE)
  \/ \E id \in CacheIds : GetState(id)
  \/ \E id \in CacheIds : DeleteState(id, TRUE)
  \/ Tick

SpecCache == InitCache /\ [][NextCache]_vars

\* ------------------------------------------------- saveState, approveEdit
\* The <<path, edits>> saved for approval: an edit of line 2, an edit of a
\* line no file has, an edit whose strMatch no line holds.
ApproveInputs ==
  { <<"/f", <<RangeEdit(2, 2, <<"a">>, Undef, Undef)>>>>,
    <<"/f", <<RangeEdit(9, 9, <<"b">>, Undef, Undef)>>>>,
    <<"/g", <<RangeEdit(2, 2, <<"b">>, <<"b", "b">>, Undef)>>>> }

\* The ids approveEdit and deleteState are called with.
ApproveIds == IdsOf(ApproveInputs)

InitApprove ==
  /\ \E content \in InitContents : disk = [p \in Paths |-> content]
  /\ editorVersion \in EditorVersions
  /\ states = <<>>
  /\ now = 0
  /\ TTL \in 1..MaxTTL
  /\ calls = [c \in Slots |-> IdleCall]
  /\ last = NoLast
  /\ savedAt = <<>>
  /\ approved = <<>>

NextApprove ==
  \/ \E in \in ApproveInputs : SaveState(in[1], in[2], FALSE)
  \/ \E id \in ApproveIds : ApproveCall(1, id)
  \/ \E id \in ApproveIds : DeleteState(id, FALSE)
  \/ ReadDone(1)
  \/ WriteDone(1)
  \/ Return(1)
  \/ Tick

SpecApprove == InitApprove /\ [][NextApprove]_vars

\* ------------------------------------------- the edit_file_lines tool
\* CallTool handler, edit_file_lines: the arguments parse, validatePath
\* returns the path and editFile runs up to `await fs.readFile`.
CallEditFileLines(c, path, edits, dryRun) ==
  /\ calls[c].pc = "idle"
  /\ calls' = [calls EXCEPT ![c] =
       [IdleCall EXCEPT !.op = "edit_file_lines", !.pc = "read",
                        !.path = path, !.edits = edits, !.dryRun = dryRun]]
  /\ UNCHANGED <<disk, editorVersion, states, now, TTL, last, savedAt,
                 approved>>

\* CallTool handler, edit_file_lines, from the end of `await editFile` on:
\* after a dry run it saves the state under the edits array it gave
\* editFile and returns the diff with the state id; otherwise it returns
\* the diff, or the text of the error.
EditFileLinesDone(c) ==
  LET call == calls[c]
      saves == call.pc = "resolved" /\ call.dryRun
      r == saveState(states, now, TTL, call.path, call.edits)
  IN /\ call.op = "edit_file_lines"
     /\ call.pc \in {"resolved", "rejected"}
     /\ calls' = [calls EXCEPT ![c] = IdleCall]
     /\ states' = IF saves THEN r.map ELSE states
     /\ savedAt' = IF saves THEN mapSet(savedAt, r.id, now) ELSE savedAt
     /\ approved' = IF saves THEN mapDelete(approved, r.id) ELSE approved
     /\ UNCHANGED <<disk, editorVersion, now, TTL, last>>

InitTool ==
  /\ \E content \in InitContents : disk = [p \in Paths |-> content]
  /\ editorVersion \in EditorVersions
  /\ states = <<>>
  /\ now = 0
  /\ TTL = MaxTTL
  /\ calls = [c \in Slots |-> IdleCall]
  /\ last = NoLast
  /\ savedAt = <<>>
  /\ approved = <<>>

NextTool ==
  \/ \E in \in ApproveInputs, dryRun \in BOOLEAN :
       CallEditFileLines(1, in[1], in[2], dryRun)
  \/ EditFileLinesDone(1)
  \/ \E id \in ApproveIds : ApproveCall(1, id)
  \/ calls[1].op = "approveEdit" /\ Return(1)
  \/ ReadDone(1)
  \/ WriteDone(1)
  \/ Tick

SpecTool == InitTool /\ [][NextTool]_vars

\* ------------------------------------- previews and concurrent approvals
\* The <<path, edits>> previewed: an edit of line 2, a multi-line text for
\* line 2, and two edits of line 1 listed in either order.
PreviewInputs ==
  { <<"/f", <<RangeEdit(2, 2, <<"a">>, Undef, Undef)>>>>,
    <<"/f", <<ActionEdit(2, "replace_content_at_line", <<"a", NL, "b">>)>>>>,
    <<"/g", <<RangeEdit(1, 1, <<"a">>, Undef, Undef),
              RangeEdit(1, 1, <<"b">>, Undef, Undef)>>>>,
    <<"/g", <<RangeEdit(1, 1, <<"b">>, Undef, Undef),
              RangeEdit(1, 1, <<"a">>, Undef, Undef)>>>> }

\* Dry runs of edit_file_lines, one at a time, and approve_edit calls with
\* the ids in the cache, two of which may be pending at once; each editor
\* is given the request shapes it reads.
NextPreview ==
  \/ \E in \in PreviewInputs :
       /\ editorVersion = "action" \/ hasLegacyFields(in[2][1])
       /\ Len(disk[in[1]]) <= MaxFile
       /\ Cardinality(DOMAIN states) < MaxSaved
       /\ \A c \in Slots : calls[c] = IdleCall
       /\ CallEditFileLines(1, in[1], in[2], TRUE)
  \/ EditFileLinesDone(1)
  \/ \E c \in Slots, id \in DOMAIN states : ApproveCall(c, id)
  \/ \E c \in Slots : calls[c].op = "approveEdit" /\ Return(c)
  \/ \E c \in Slots : ReadDone(c)
  \/ \E c \in Slots : WriteDone(c)

InitPreview == InitTool /\ disk[FilePath] = "a b\n  ab\nb"

SpecPreview == InitPreview /\ [][NextPreview]_vars

\* ------------------------------------------------- match-conditioned edits
\* Contents for the single-line edits that carry a match: "a.b",
\* "  a  b a", "ab ab\n b".
MatchContents ==
  { <<"a", ".", "b">>,
    <<" ", " ", "a", " ", " ", "b", " ", "a">>,
    <<"a", "b", " ", "a", "b", NL, " ", "b">> }

\* Edits of line 1 with a strMatch or a regexMatch, the replacement "c" or
\* empty; "^" matches the empty text at the start of the line, "(" is not
\* a pattern, be the edit of one line or of two.
MatchPool ==
  { RangeEdit(1, 1, c, sm, Undef) :
      c \in {<<"c">>, <<>>},
      sm \in {<<".">>, <<"a">>, <<"a", "b">>, <<"a", " ", "b">>, <<" ", "b">>} }
  \cup { RangeEdit(1, 1, <<"c">>, Undef, rm) : rm \in {<<".">>, <<"a">>, <<"b">>, <<"^">>} }
  \cup { RangeEdit(2, 2, <<"c">>, <<"b">>, Undef) }
  \cup { RangeEdit(1, e, <<"c">>, Undef, <<"(">>) : e \in 1..2 }

InitMatch ==
  /\ \E content \in MatchContents : disk = [p \in Paths |-> content]
  /\ editorVersion = "range"
  /\ states = <<>>
  /\ now = 0
  /\ TTL = MaxTTL
  /\ calls = [c \in Slots |-> IdleCall]
  /\ last = NoLast
  /\ savedAt = <<>>
  /\ approved = <<>>

NextMatch ==
  \/ \E edits \in BatchesOf(MatchPool), dryRun \in BOOLEAN :
       CallEditFile(1, FilePath, edits, dryRun)
  \/ ReadDone(1)
  \/ WriteDone(1)

SpecMatch == InitMatch /\ [][NextMatch]_vars

\* ============================================================== properties
\* What the properties below say of a finished call is said of the call in
\* slot 1; slot 2 holds a second call only where two approvals interleave.
TheCall == calls[1]

Settled(call) == call.pc \in {"write", "resolved", "rejected"}

\* The text of line n of a file content.
fileLine(content, n) == splitLines(normalizeLineEndings(content))[n]

\* ---------------------------------------------------------------- C1
\* An edit whose range is not within 1..count, or is upside down.
BadRange(edit, count) ==
  edit.startLine > edit.endLine \/ edit.startLine < 1 \/ edit.endLine > count

\* Two edits of the batch that validateEdits refuses on one line: two edits
\* without regexMatch, or two with regexMatch whose patterns match
\* overlapping parts of the line (or do not compile).
SameLineConflict(content, edits) ==
  \E i, j \in 1..Len(edits) : \E l \in 1..Len(buildLines(content)) :
    /\ i < j
    /\ edits[i].startLine <= l /\ l <= edits[i].endLine
    /\ edits[j].startLine <= l /\ l <= edits[j].endLine
    /\ IF truthy(edits[i].regexMatch) /\ truthy(edits[j].regexMatch)
       THEN \/ ~regexCompiles(edits[i].regexMatch)
            \/ ~regexCompiles(edits[j].regexMatch)
            \/ LET m1 == regexSearch(regexTokens(edits[i].regexMatch),
                                     trimStart(fileLine(content, l)))
                   m2 == regexSearch(regexTokens(edits[j].regexMatch),
                                     trimStart(fileLine(content, l)))
               IN m1.found /\ m2.found
                  /\ m1.index < m2.end /\ m2.index < m1.end
       ELSE ~truthy(edits[i].regexMatch) /\ ~truthy(edits[j].regexMatch)

\* A single-line edit that carries a match.
MatchEdit(edit) ==
  edit.startLine = edit.endLine
    /\ (truthy(edit.strMatch) \/ truthy(edit.regexMatch))

\* The match of a single-line edit is in the text of a line: the trimmed
\* strMatch literally or with whitespace runs taken as one space, or the
\* pattern of regexMatch somewhere.
FoundIn(text, edit) ==
  IF truthy(edit.strMatch)
  THEN \/ includes(text, trim(edit.strMatch))
       \/ includes(collapseWhitespace(text),
                   collapseWhitespace(trim(edit.strMatch)))
  ELSE /\ regexCompiles(edit.regexMatch)
       /\ \E i \in 0..Len(text) :
            matchFrom(regexTokens(edit.regexMatch), 1, text, i) # -1

\* The lines the k-th edit applied finds: the file's, as the edits applied
\* before it (those of greater startLine, then those given earlier) left
\* them.
WorkingLines(content, edits, k) ==
  rangeApplyLoop(buildLines(content),
                 SubSeq(sortByStartLineDesc(edits), 1, k - 1), 1,
                 [error |-> NoError, lines |-> buildLines(content),
                  results |-> <<>>])

\* Some single-line edit does not find its match in its target line when
\* its turn comes.
Unmatched(content, edits) ==
  \E k \in 1..Len(edits) :
    LET edit == sortByStartLineDesc(edits)[k]
        w == WorkingLines(content, edits, k)
    IN /\ MatchEdit(edit)
       /\ w.error = NoError
       /\ ~FoundIn(w.lines[edit.startLine].indentation
                     \o w.lines[edit.startLine].content, edit)

\* A batch the range-based editFile must refuse.
RangeBatchBad(content, edits) ==
  \/ \E i \in 1..Len(edits) : BadRange(edits[i], Len(buildLines(content)))
  \/ SameLineConflict(content, edits)
  \/ Unmatched(content, edits)

\* C1, amended: range-based editor: a batch with an edit of startLine >
\* endLine, of a range outside 1..line count, with a same-line conflict
\* validateEdits detects, or with a single-line edit whose strMatch, its
\* leading and trailing whitespace trimmed, or whose regexMatch is not found
\* in its target line as the edits applied before it left that line, is
\* rejected by editFile, dryRun or not, and the file is never written: the
\* call never comes to its fs.writeFile and the file keeps the content read.
C1_RangeBadBatchRejected ==
  (/\ editorVersion = "range"
   /\ TheCall.op = "editFile"
   /\ Settled(TheCall)
   /\ RangeBatchBad(TheCall.before, TheCall.edits))
  => (TheCall.pc = "rejected" /\ disk[TheCall.path] = TheCall.before)

\* C1 amended happens: a batch is rejected for an unmatched edit after another edit
\* of it was applied to the working copy, the call not being a dry run.
C1_Witness ==
  /\ editorVersion = "range"
  /\ TheCall.op = "editFile" /\ ~TheCall.dryRun
  /\ TheCall.pc = "rejected"
  /\ TheCall.error.name = "MatchNotFoundError"
  /\ \E n \in DOMAIN TheCall.results : TheCall.results[n].applied
  /\ disk[TheCall.path] = TheCall.before

\* The match of a single-line edit is in a text, the strMatch taken as it
\* was given: literally or with whitespace runs taken as one space, or the
\* pattern of regexMatch somewhere.
FoundAsGiven(text, edit) ==
  IF truthy(edit.strMatch)
  THEN \/ includes(text, edit.strMatch)
       \/ includes(collapseWhitespace(text), collapseWhitespace(edit.strMatch))
  ELSE /\ regexCompiles(edit.regexMatch)
       /\ \E i \in 0..Len(text) :
            matchFrom(regexTokens(edit.regexMatch), 1, text, i) # -1

\* C1 as stated: range-based editor: a batch with an edit of startLine >
\* endLine, of a range outside 1..line count, with a same-line conflict
\* validateEdits detects, or with a strMatch/regexMatch that is not found in
\* its target line of the file is rejected by editFile, dryRun or not, and
\* the file is never written.
C1_AsStated ==
  (/\ editorVersion = "range"
   /\ TheCall.op = "editFile"
   /\ Settled(TheCall)
   /\ \/ \E i \in 1..Len(TheCall.edits) :
           BadRange(TheCall.edits[i], Len(buildLines(TheCall.before)))
      \/ SameLineConflict(TheCall.before, TheCall.edits)
      \/ \E i \in 1..Len(TheCall.edits) :
           /\ MatchEdit(TheCall.edits[i])
           /\ ~FoundAsGiven(fileLine(TheCall.before,
                                     TheCall.edits[i].startLine),
                            TheCall.edits[i]))
  => (TheCall.pc = "rejected" /\ disk[TheCall.path] = TheCall.before)

\* ---------------------------------------------------------------- C2
\* A request of the lineNumber/action/text shape that addEdit fails: no
\* action, or a lineNumber outside 1..count.
FailsValidation(edit, count) ==
  /\ ~hasLegacyFields(edit)
  /\ \/ edit.action = UndefAction
     \/ edit.lineNumber < 1
     \/ edit.lineNumber > count

\* C2: action-based editor: when a request of the batch fails validation (a
\* lineNumber outside 1..line count, or no action), no request of the batch
\* is applied and editFile with dryRun=false leaves the file as it was.
C2_AllOrNothing ==
  (/\ editorVersion = "action"
   /\ TheCall.op = "editFile" /\ ~TheCall.dryRun
   /\ TheCall.pc \in {"resolved", "rejected"}
   /\ \E i \in 1..Len(TheCall.edits) :
        FailsValidation(TheCall.edits[i], Len(buildLines(TheCall.before))))
  => /\ disk[TheCall.path] = TheCall.before
     /\ \A n \in DOMAIN TheCall.results :
          TheCall.results[n].status # "APPLIED"

\* ---------------------------------------------------------------- C3
\* C3: editFile with dryRun=true never writes the file, whatever the content
\* and the batch and whether the batch is accepted or rejected: the call
\* never comes to its fs.writeFile and the file keeps the content read; an
\* accepted batch still gets the diff of that content against the edited one.
C3_DryRunNeverWrites ==
  (TheCall.op = "editFile" /\ TheCall.dryRun /\ Settled(TheCall))
  => /\ TheCall.pc # "write"
     /\ disk[TheCall.path] = TheCall.before
     /\ TheCall.error = NoError
          => /\ TheCall.pc = "resolved"
             /\ TheCall.diff.original = normalizeLineEndings(TheCall.before)
             /\ TheCall.diff.modified = TheCall.modified

\* C3 happens: a dry run returns the diff of a batch that changes the file,
\* and the file is as it was.
C3_Witness ==
  /\ TheCall.op = "editFile" /\ TheCall.dryRun
  /\ TheCall.pc = "resolved"
  /\ TheCall.diff.modified # TheCall.diff.original
  /\ disk[TheCall.path] = TheCall.before

\* --------------------------------------------------------------- C10
\* The batch passes addEdit and validateEdits.
RangeBatchValid(content, edits) ==
  /\ \A i \in 1..Len(edits) : ~BadRange(edits[i], Len(buildLines(content)))
  /\ ~SameLineConflict(content, edits)

\* The k-th edit applied is the first to fail, and fails for its match: it
\* is a single-line edit whose strMatch, trimmed, is in its line, as the
\* edits before it left it, neither literally nor with whitespace runs taken
\* as one space, or whose regexMatch compiles and matches nothing in it.
FirstUnmatched(content, edits, k) ==
  LET edit == sortByStartLineDesc(edits)[k]
      w == WorkingLines(content, edits, k)
  IN /\ MatchEdit(edit)
     /\ truthy(edit.strMatch) \/ regexCompiles(edit.regexMatch)
     /\ w.error = NoError
     /\ ~FoundIn(w.lines[edit.startLine].indentation
                   \o w.lines[edit.startLine].content, edit)

\* The error the call was rejected with is the MatchNotFoundError of edit.
CarriesMatchOf(error, edit) ==
  /\ error.name = "MatchNotFoundError"
  /\ error.line = edit.startLine
  /\ error.match = (IF truthy(edit.strMatch) THEN edit.strMatch
                    ELSE edit.regexMatch)
  /\ error.isRegex = ~truthy(edit.strMatch)

\* C10, amended: range-based editor: a single-line edit whose strMatch, with
\* its leading and trailing whitespace trimmed, occurs in its target line (as
\* the edits applied before it left the line) neither literally nor after
\* collapsing whitespace runs to one space makes editFile reject with a
\* MatchNotFoundError that carries the line number, the strMatch as given and
\* isRegex=false (the regexMatch and isRegex=true for a regexMatch that
\* compiles and does not match); the file is not written.
C10_UnmatchedRejected ==
  (/\ editorVersion = "range"
   /\ TheCall.op = "editFile"
   /\ Settled(TheCall)
   /\ RangeBatchValid(TheCall.before, TheCall.edits))
  => \A k \in 1..Len(TheCall.edits) :
       FirstUnmatched(TheCall.before, TheCall.edits, k)
       => /\ TheCall.pc = "rejected"
          /\ CarriesMatchOf(TheCall.error,
                            sortByStartLineDesc(TheCall.edits)[k])
          /\ disk[TheCall.path] = TheCall.before

\* C10 amended happens: a strMatch that is in the line only once trimmed
\* is accepted, and one that is not there even so is rejected with its
\* MatchNotFoundError.
C10_Witness ==
  /\ editorVersion = "range"
  /\ TheCall.op = "editFile" /\ ~TheCall.dryRun
  /\ TheCall.pc = "rejected"
  /\ TheCall.error.name = "MatchNotFoundError"
  /\ ~TheCall.error.isRegex
  /\ TheCall.error.match # trim(TheCall.error.match)
  /\ disk[TheCall.path] = TheCall.before

\* C10 as stated: range-based editor: a single-line edit whose strMatch
\* occurs neither literally in the target line nor after collapsing
\* whitespace runs to one space makes editFile reject with a
\* MatchNotFoundError carrying the line number, the searched text and
\* isRegex=false; the file is not written.  Said of the batches made of that
\* one edit.
C10_AsStated ==
  (/\ editorVersion = "range"
   /\ TheCall.op = "editFile"
   /\ Settled(TheCall)
   /\ Len(TheCall.edits) = 1
   /\ RangeBatchValid(TheCall.before, TheCall.edits)
   /\ MatchEdit(TheCall.edits[1])
   /\ truthy(TheCall.edits[1].strMatch)
   /\ ~includes(fileLine(TheCall.before, TheCall.edits[1].startLine),
                TheCall.edits[1].strMatch)
   /\ ~includes(collapseWhitespace(
                  fileLine(TheCall.before, TheCall.edits[1].startLine)),
                collapseWhitespace(TheCall.edits[1].strMatch)))
  => /\ TheCall.pc = "rejected"
     /\ CarriesMatchOf(TheCall.error, TheCall.edits[1])
     /\ disk[TheCall.path] = TheCall.before

\* ---------------------------------------------------------------- C4
\* What every step that starts approveEdit(id), and no other step, does to
\* the call.
IsApproveStep(id) ==
  /\ calls[1].pc = "idle"
  /\ calls'[1].op = "approveEdit"
  /\ calls'[1].stateId = id

\* C4: once approveEdit(F) has succeeded and as long as no saveState returns
\* F again, the entry F is gone (getState(F) is undefined, the map has no F)
\* and an approveEdit(F) rejects with "Invalid or expired state ID" without
\* touching the file; so too when the approved edit left the file content as
\* it was.
C4_ApprovedIsGone ==
  /\ [](\A id \in DOMAIN approved :
          /\ id \notin DOMAIN states
          /\ ~getState(states, now, TTL, id).found)
  /\ [][\A id \in ApproveIds :
          (id \in DOMAIN approved /\ IsApproveStep(id)
             /\ ApproveCall(1, id))
          => /\ calls'[1].pc = "rejected"
             /\ calls'[1].error = InvalidStateError
             /\ disk' = disk]_vars

\* A second approveEdit(F) is rejected after a first that wrote the file
\* with the content it already had.
C4_Witness ==
  /\ TheCall.op = "approveEdit"
  /\ TheCall.pc = "rejected"
  /\ TheCall.error = InvalidStateError
  /\ TheCall.stateId \in DOMAIN approved
  /\ ~approved[TheCall.stateId]

\* ---------------------------------------------------------------- C5
\* The <<path, edits>> whose saveState returns id.
SavedAs(id) ==
  CHOOSE in \in ApproveInputs : saveState(<<>>, 0, 1, in[1], in[2]).id = id

\* Whether getState(id) is due an entry now.
LiveNow(id) == id \in DOMAIN savedAt /\ now - savedAt[id] <= TTL

\* C5: when the cached edits of F cannot be applied to the file (an edit of a
\* line the file does not have, a strMatch/regexMatch that is not found),
\* approveEdit(F) rejects, the file keeps its content, and getState(F)
\* still returns the entry while it is within its TTL.
C5_FailedApprovePreserves ==
  (/\ TheCall.op = "approveEdit"
   /\ TheCall.pc \in {"resolved", "rejected"}
   /\ TheCall.error # InvalidStateError
   /\ RangeBatchBad(TheCall.before, SavedAs(TheCall.stateId)[2]))
  => /\ TheCall.pc = "rejected"
     /\ disk[TheCall.path] = TheCall.before
     /\ LiveNow(TheCall.stateId)
          => getState(states, now, TTL, TheCall.stateId).found

\* ---------------------------------------------------------------- C6
\* Whether id was never saved, was deleted since its last save, or was last
\* saved more than TTL ago.
NotLive(id) == id \notin DOMAIN savedAt \/ now - savedAt[id] > TTL

\* C6: approveEdit with an id that was never saved, was deleted or is older
\* than TTL rejects with "Invalid or expired state ID" at once, before any
\* fs.readFile or fs.writeFile; the files and every other entry of the map
\* that is not older than TTL are as they were.
C6_NotLiveRejected ==
  [][\A id \in ApproveIds :
       (NotLive(id) /\ IsApproveStep(id) /\ ApproveCall(1, id))
       => /\ calls'[1].pc = "rejected"
          /\ calls'[1].error = InvalidStateError
          /\ disk' = disk
          /\ \A other \in DOMAIN states \ {id} :
               now - states[other].timestamp <= TTL
               => /\ other \in DOMAIN states'
                  /\ states'[other] = states[other]]_vars

\* An approveEdit of an expired id is rejected while the map holds an entry
\* that is not expired.
C6_Witness ==
  /\ TheCall.op = "approveEdit"
  /\ TheCall.pc = "rejected"
  /\ TheCall.error = InvalidStateError
  /\ TheCall.stateId \in DOMAIN savedAt
  /\ now - savedAt[TheCall.stateId] > TTL
  /\ \E other \in DOMAIN states : now - states[other].timestamp <= TTL

\* ---------------------------------------------------------------- C7
\* Whether, at the time `at`, the last saveState that returned id lies at most
\* TTL back and no deleteState(id) came after it.
LiveAt(id, at) == id \in DOMAIN savedAt /\ at - savedAt[id] <= TTL

\* C7: under a clock that never goes back, getState(id) returns an entry
\* exactly when the most recent saveState that returned id happened at most
\* TTL before the read (an age of exactly TTL is still live) and no
\* deleteState(id) happened since; the entry returned is the one that save
\* stored; an id that is not live is not in the map once the read is done.
C7_GetStateIffLive ==
  last.op = "getState"
  => /\ last.found <=> LiveAt(last.id, last.at)
     /\ last.found => /\ last.state.timestamp = savedAt[last.id]
                      /\ last.id \in DOMAIN states
                      /\ states[last.id] = last.state
     /\ ~LiveAt(last.id, last.at) => last.id \notin DOMAIN states

\* A getState that returned an entry whose age was exactly TTL.
C7_Witness ==
  /\ last.op = "getState"
  /\ last.found
  /\ last.id \in DOMAIN savedAt
  /\ last.at - savedAt[last.id] = TTL

\* ---------------------------------------------------------------- C8
\* C8: a saveState given the (path, edits) the saveState before it was given
\* returns the id that one returned, and leaves under that id the entry of
\* the second save: its timestamp is the time of the second save, so
\* getState returns it up to TTL after the second save and no longer.
C8_SaveTwice ==
  [][\A in \in CacheInputs :
       (last.op = "saveState" /\ last.input = in
          /\ SaveState(in[1], in[2], TRUE))
       => /\ last'.id = last.id
          /\ last.id \in DOMAIN states'
          /\ states'[last.id].timestamp = now
          /\ states'[last.id].path = in[1]
          /\ getState(states', now + TTL, TTL, last.id).found
          /\ ~getState(states', now + TTL + 1, TTL, last.id).found]_vars

\* A second save that found the entry of an earlier save under the id.
C8_Witness ==
  /\ last.op = "saveState"
  /\ last.replaced # UndefNum
  /\ last.replaced < last.state.timestamp

\* ---------------------------------------------------------------- C9
\* Whether two edit objects have the same value under every key.
SameFields(a, b) ==
  /\ a.tuple = b.tuple
  /\ \A k \in EditKeys : a[k] = b[k]
  /\ {a.keys[i] : i \in 1..Len(a.keys)} = {b.keys[i] : i \in 1..Len(b.keys)}

\* Whether two saveState inputs differ in the key order of their objects
\* at most.
SameUpToKeyOrder(in1, in2) ==
  /\ in1[1] = in2[1]
  /\ Len(in1[2]) = Len(in2[2])
  /\ \A i \in 1..Len(in1[2]) : SameFields(in1[2][i], in2[2][i])

\* C9: two saveState calls with the same path and edit lists whose objects
\* have the same field values, their keys in whatever order, return the same
\* state id.
C9_KeyOrderIrrelevant ==
  [][\A in1 \in CacheInputs, in2 \in CacheInputs :
       (last.op = "saveState" /\ last.input = in1
          /\ SameUpToKeyOrder(in1, in2)
          /\ SaveState(in2[1], in2[2], TRUE))
       => last'.id = last.id]_vars

\* --------------------------------------------------------------- C11
\* The call applied one single-line edit of a line the file has, and the
\* edit carries a strMatch.
OneStrMatchEdit(call) ==
  /\ editorVersion = "range"
  /\ call.op = "editFile"
  /\ Settled(call)
  /\ Len(call.edits) = 1
  /\ ~BadRange(call.edits[1], Len(buildLines(call.before)))
  /\ MatchEdit(call.edits[1])
  /\ truthy(call.edits[1].strMatch)

\* The places of line where sub occurs: the offsets just before it.
occurrences(line, sub) ==
  {i \in 0..(Len(line) - Len(sub)) : SubSeq(line, i + 1, i + Len(sub)) = sub}

\* line with the Len(sub) characters after offset i replaced by repl.
spanReplaced(line, i, sub, repl) ==
  SubSeq(line, 1, i) \o repl \o SubSeq(line, i + Len(sub) + 1, Len(line))

\* C11: range-based editor: a single-line edit whose strMatch occurs
\* literally in the target line is applied, and the resulting line is the
\* original line with the occurrence of strMatch replaced by content, every
\* character before and after that occurrence kept.  Said of the lines
\* where strMatch occurs once.
C11_OnlySpanReplaced ==
  (/\ OneStrMatchEdit(TheCall)
   /\ Cardinality(occurrences(fileLine(TheCall.before,
                                       TheCall.edits[1].startLine),
                              TheCall.edits[1].strMatch)) = 1)
  => /\ TheCall.error = NoError
     /\ \E i \in occurrences(fileLine(TheCall.before,
                                      TheCall.edits[1].startLine),
                             TheCall.edits[1].strMatch) :
          fileLine(TheCall.modified, TheCall.edits[1].startLine)
            = spanReplaced(fileLine(TheCall.before,
                                    TheCall.edits[1].startLine),
                           i, TheCall.edits[1].strMatch,
                           TheCall.edits[1].content)

\* --------------------------------------------------------------- C12
\* The spans <<i, j>> (offsets) of body that are the match of edit: the text
\* between them is strMatch, trimmed, up to the length of its whitespace
\* runs and neither begins nor ends with whitespace; or it is what the
\* pattern of regexMatch matches from offset i.
matchSpans(body, edit) ==
  IF truthy(edit.strMatch)
  THEN {sp \in (0..Len(body)) \X (0..Len(body)) :
          /\ sp[1] < sp[2]
          /\ ~IsWS(body[sp[1] + 1]) /\ ~IsWS(body[sp[2]])
          /\ collapseWhitespace(SubSeq(body, sp[1] + 1, sp[2]))
               = collapseWhitespace(trim(edit.strMatch))}
  ELSE {sp \in (0..Len(body)) \X (0..Len(body)) :
          /\ regexCompiles(edit.regexMatch)
          /\ matchFrom(regexTokens(edit.regexMatch), 1, body, sp[1]) = sp[2]}

\* A strMatch in which no character has a meaning of its own in a pattern.
plainMatch(edit) ==
  truthy(edit.strMatch)
    => \A k \in 1..Len(edit.strMatch) : edit.strMatch[k] \notin {".", "("}

\* A replacement text that does not begin with whitespace.
noLeadingWhitespace(text) == text = <<>> \/ ~IsWS(text[1])

\* C12: range-based editor: a successful single-line match-conditioned edit
\* whose replacement text has no leading whitespace yields the original
\* line's indentation followed by the body with the match replaced by the
\* replacement text.  Said of the lines whose body holds the match once and
\* of the strMatch made of plain characters.
C12_IndentationThenBody ==
  (/\ editorVersion = "range"
   /\ TheCall.op = "editFile"
   /\ Settled(TheCall)
   /\ TheCall.error = NoError
   /\ Len(TheCall.edits) = 1
   /\ MatchEdit(TheCall.edits[1])
   /\ plainMatch(TheCall.edits[1])
   /\ noLeadingWhitespace(TheCall.edits[1].content))
  => LET line == fileLine(TheCall.before, TheCall.edits[1].startLine)
         indent == SubSeq(line, 1, getIndentationLevel(line))
         body == trimStart(line)
         spans == matchSpans(body, TheCall.edits[1])
     IN Cardinality(spans) = 1
        => \A sp \in spans :
             fileLine(TheCall.modified, TheCall.edits[1].startLine)
               = indent \o SubSeq(body, 1, sp[1]) \o TheCall.edits[1].content
                   \o SubSeq(body, sp[2] + 1, Len(body))

\* --------------------------------------------------------------- C13
\* The lines that lie in the range of two edits of the batch that carry no
\* regexMatch.
sharedLines(edits) ==
  {l \in UNION {edits[i].startLine..edits[i].endLine : i \in 1..Len(edits)} :
     \E i, j \in 1..Len(edits) :
       /\ i < j
       /\ ~truthy(edits[i].regexMatch) /\ ~truthy(edits[j].regexMatch)
       /\ edits[i].startLine <= l /\ l <= edits[i].endLine
       /\ edits[j].startLine <= l /\ l <= edits[j].endLine}

\* Two edits of the batch that carry a regexMatch reach a common line.
regexEditsMeet(edits) ==
  \E i, j \in 1..Len(edits) :
    /\ i < j
    /\ truthy(edits[i].regexMatch) /\ truthy(edits[j].regexMatch)
    /\ edits[i].startLine <= edits[j].endLine
    /\ edits[j].startLine <= edits[i].endLine

\* The call was rejected, before any line of the working copy was changed
\* and with nothing written, for a line two non-regex edits reach.
rejectedForSharedLine(call) ==
  /\ call.pc = "rejected"
  /\ call.error.msg = "Line is affected by multiple non-regex edits"
  /\ call.error.line \in sharedLines(call.edits)

\* C13, amended: range-based editor: every batch of edits that pass
\* validateRange in which two edits without regexMatch cover a common line
\* is rejected before any line of the working copy is changed, and the file
\* is not written; the error is validateEdits' "Line N is affected by
\* multiple non-regex edits", N such a line, unless two regexMatch edits of
\* the batch meet on a line too.
C13_SharedLineRejected ==
  (/\ editorVersion = "range"
   /\ TheCall.op = "editFile"
   /\ Settled(TheCall)
   /\ \A i \in 1..Len(TheCall.edits) :
        ~BadRange(TheCall.edits[i], Len(buildLines(TheCall.before)))
   /\ sharedLines(TheCall.edits) # {})
  => /\ TheCall.pc = "rejected"
     /\ TheCall.results = <<>>
     /\ disk[TheCall.path] = TheCall.before
     /\ ~regexEditsMeet(TheCall.edits) => rejectedForSharedLine(TheCall)

\* C13 amended happens: two non-regex edits of different ranges that
\* overlap are rejected for a line they share, the call not being a dry run.
C13_Witness ==
  /\ editorVersion = "range"
  /\ TheCall.op = "editFile" /\ ~TheCall.dryRun
  /\ rejectedForSharedLine(TheCall)
  /\ \E i, j \in 1..Len(TheCall.edits) :
       TheCall.edits[i].endLine # TheCall.edits[j].endLine
  /\ TheCall.results = <<>>
  /\ disk[TheCall.path] = TheCall.before

\* C13 as stated: range-based editor: every batch in which two edits
\* without regexMatch cover a common line is rejected by validateEdits with
\* a "Line N is affected by multiple ..." error naming such a line, before
\* any line of the working copy is changed.
C13_AsStated ==
  (/\ editorVersion = "range"
   /\ TheCall.op = "editFile"
   /\ Settled(TheCall)
   /\ sharedLines(TheCall.edits) # {})
  => /\ rejectedForSharedLine(TheCall)
     /\ TheCall.results = <<>>
     /\ disk[TheCall.path] = TheCall.before

\* --------------------------------------------------------------- C14
\* The call applied a batch of two single-line edits of the same line of
\* the file, each with a regexMatch that compiles and no strMatch.
TwoRegexEdits(call) ==
  /\ editorVersion = "range"
  /\ call.op = "editFile"
  /\ Settled(call)
  /\ Len(call.edits) = 2
  /\ \A i \in 1..2 :
       /\ truthy(call.edits[i].regexMatch) /\ ~truthy(call.edits[i].strMatch)
       /\ regexCompiles(call.edits[i].regexMatch)
       /\ call.edits[i].startLine = call.edits[1].startLine
       /\ call.edits[i].endLine = call.edits[1].startLine
       /\ ~BadRange(call.edits[i], Len(buildLines(call.before)))

\* The leftmost of spans, which is not empty.
leftmost(spans) == CHOOSE sp \in spans : \A o \in spans : sp[1] <= o[1]

\* The spans [a[1], a[2]) and [b[1], b[2]) have an offset in common.
spansIntersect(a, b) ==
  \E k \in a[1]..(a[2] - 1) : b[1] <= k /\ k < b[2]

\* C14: range-based editor: two regexMatch edits on the same line are
\* rejected with "Overlapping regex patterns" exactly when the spans
\* [start, start + length) of their matches in that line intersect; when
\* the spans are disjoint, or one of the patterns does not match the line,
\* validation accepts both edits (what may fail then is the search of the
\* match when the edits are applied).
C14_OverlapIffSpansIntersect ==
  TwoRegexEdits(TheCall)
  => LET body == trimStart(fileLine(TheCall.before, TheCall.edits[1].startLine))
         sp1 == matchSpans(body, TheCall.edits[1])
         sp2 == matchSpans(body, TheCall.edits[2])
     IN IF sp1 # {} /\ sp2 # {} /\ spansIntersect(leftmost(sp1), leftmost(sp2))
        THEN /\ TheCall.pc = "rejected"
             /\ TheCall.error.msg = "Overlapping regex patterns"
             /\ TheCall.error.line = TheCall.edits[1].startLine
        ELSE \/ TheCall.error = NoError
             \/ TheCall.error.name = "MatchNotFoundError"

\* --------------------------------------------------------------- C15
\* x without the CR of each CR LF pair.
dropCRLF(x) ==
  LET keep == {i \in 1..Len(x) : ~(x[i] = CR /\ i < Len(x) /\ x[i + 1] = NL)}
      nth(k) == CHOOSE i \in keep : Cardinality({j \in keep : j <= i}) = k
  IN [k \in 1..Cardinality(keep) |-> x[nth(k)]]

\* The call is an editFile with an empty edit list that has run.
NoEditsCall(call) ==
  /\ call.op = "editFile"
  /\ Settled(call)
  /\ call.edits = <<>>

\* C15, amended: for any file content x and an empty edit list, editFile
\* succeeds and the content it produces (and writes, unless dryRun) is x
\* with every CR LF pair turned into LF: x itself when x has no CR LF pair,
\* leading whitespace, empty lines and a trailing newline kept.
C15_RoundTripUpToLineEndings ==
  NoEditsCall(TheCall)
  => /\ TheCall.error = NoError
     /\ TheCall.modified = dropCRLF(TheCall.before)
     /\ (TheCall.pc = "resolved" /\ ~TheCall.dryRun)
          => disk[TheCall.path] = dropCRLF(TheCall.before)

\* C15 amended happens: a file that begins with whitespace, has an empty
\* line and ends with a newline was written back as it was.
C15_Witness ==
  /\ NoEditsCall(TheCall)
  /\ TheCall.pc = "resolved" /\ ~TheCall.dryRun
  /\ TheCall.before = <<" ", "a", NL, NL>>
  /\ disk[TheCall.path] = TheCall.before

\* C15 as stated: for any file content x, content with CRLF line endings
\* included, and an empty edit list, editFile produces content identical
\* to x.
C15_AsStated ==
  NoEditsCall(TheCall)
  => /\ TheCall.error = NoError
     /\ TheCall.modified = TheCall.before

\* --------------------------------------------------------------- C16
\* A batch of insert_before, insert_after (with their text) and delete_line
\* requests whose target lines are pairwise distinct and within 1..count.
InsertDeleteBatch(edits, count) ==
  /\ \A i \in 1..Len(edits) :
       /\ edits[i].keys \in {<<"lineNumber", "action">>,
                             <<"lineNumber", "action", "text">>}
       /\ edits[i].action \in {"insert_before", "insert_after", "delete_line"}
       /\ edits[i].action # "delete_line" => edits[i].text # Undef
       /\ edits[i].lineNumber \in 1..count
  /\ \A i, j \in 1..Len(edits) :
       i # j => edits[i].lineNumber # edits[j].lineNumber

\* What the batch makes of line k: the text inserted before it, the line
\* unless deleted, the text inserted after it.
piecesAt(lines, edits, k) ==
  LET at(action) == {i \in 1..Len(edits) :
                       edits[i].lineNumber = k /\ edits[i].action = action}
      textOf(action) ==
        IF at(action) = {} THEN <<>>
        ELSE <<[text |-> edits[CHOOSE i \in at(action) : TRUE].text,
                inserted |-> TRUE]>>
  IN textOf("insert_before")
       \o (IF at("delete_line") = {}
           THEN <<[text |-> lines[k], inserted |-> FALSE]>> ELSE <<>>)
       \o textOf("insert_after")

\* The pieces of the lines k, k + 1, ... in line order.
RECURSIVE expectedFrom(_, _, _)
expectedFrom(lines, edits, k) ==
  IF k > Len(lines) THEN <<>>
  ELSE piecesAt(lines, edits, k) \o expectedFrom(lines, edits, k + 1)

\* out is the lines of expected, up to the whitespace the inserted lines
\* begin with; no line at all is the empty text.
sameUpToInsertedIndent(out, expected) ==
  IF expected = <<>> THEN out = <<>>
  ELSE /\ Len(splitLines(out)) = Len(expected)
       /\ \A i \in 1..Len(expected) :
            IF expected[i].inserted
            THEN trimStart(splitLines(out)[i]) = trimStart(expected[i].text)
            ELSE splitLines(out)[i] = expected[i].text

\* C16: action-based editor: for a file of N lines and a batch of
\* insert_before / insert_after / delete_line requests whose target lines
\* are pairwise distinct and within 1..N, the output is, for each original
\* line k in order, the insert_before text of k, line k unless deleted, the
\* insert_after text of k (the indentation of inserted lines left aside),
\* in whatever order the requests are given; each outcome is APPLIED.
C16_OutputInLineOrder ==
  (/\ editorVersion = "action"
   /\ TheCall.op = "editFile"
   /\ Settled(TheCall)
   /\ InsertDeleteBatch(TheCall.edits, Len(splitLines(TheCall.before))))
  => /\ TheCall.error = NoError
     /\ sameUpToInsertedIndent(TheCall.modified,
          expectedFrom(splitLines(TheCall.before), TheCall.edits, 1))
     /\ \A i \in 1..Len(TheCall.edits) :
          /\ TheCall.edits[i].lineNumber \in DOMAIN TheCall.results
          /\ TheCall.results[TheCall.edits[i].lineNumber].status = "APPLIED"

\* C16 happens: an insert before line 1 followed by a delete of line 2,
\* which the insert has moved down, was written to the file.
C16_Witness ==
  /\ editorVersion = "action"
  /\ TheCall.op = "editFile" /\ TheCall.pc = "resolved" /\ ~TheCall.dryRun
  /\ TheCall.before = <<"a", NL, " ", "b", NL, "c">>
  /\ Len(TheCall.edits) = 2
  /\ InsertDeleteBatch(TheCall.edits, 3)
  /\ TheCall.edits[1].action = "insert_before"
  /\ TheCall.edits[1].lineNumber = 1
  /\ TheCall.edits[2].action = "delete_line"
  /\ TheCall.edits[2].lineNumber = 2
  /\ disk[TheCall.path] = <<"x", NL, "a", NL, "c">>

\* --------------------------------------------------------------- C17
\* The request names one target line: it has a lineNumber and an action, or
\* it is of the startLine/endLine shape with startLine = endLine.
OneTarget(edit) ==
  \/ hasKey(edit, "lineNumber") /\ edit.action # UndefAction
  \/ /\ ~hasKey(edit, "lineNumber") /\ hasKey(edit, "startLine")
     /\ edit.startLine = edit.endLine

targetLine(edit) ==
  IF hasKey(edit, "lineNumber") THEN edit.lineNumber ELSE edit.startLine

\* C17: action-based editor: any edit request whose target line number is
\* below 1 or above the file's line count receives a FAILED outcome whose
\* message says the line is out of range, and it has no effect on the
\* output content.  Said of the batches of one request.
C17_OutOfRangeFailed ==
  (/\ editorVersion = "action"
   /\ TheCall.op = "editFile"
   /\ Settled(TheCall)
   /\ Len(TheCall.edits) = 1
   /\ OneTarget(TheCall.edits[1])
   /\ targetLine(TheCall.edits[1])
        \notin 1..Len(splitLines(TheCall.before)))
  => /\ TheCall.error = NoError
     /\ TheCall.modified = TheCall.before
     /\ targetLine(TheCall.edits[1]) \in DOMAIN TheCall.results
     /\ TheCall.results[targetLine(TheCall.edits[1])].status = "FAILED"
     /\ TheCall.results[targetLine(TheCall.edits[1])].message
          = "Line number is out of range."

\* --------------------------------------------------------------- C18
\* Request i is a delete_line of a line outside 1..count.
OutOfRangeDelete(edits, i, count) ==
  edits[i].action = "delete_line" /\ edits[i].lineNumber \notin 1..count

\* Request i is a delete_line of a line of the file that an earlier
\* delete_line of the batch has removed.
RepeatedDelete(edits, i, count) ==
  /\ edits[i].action = "delete_line" /\ edits[i].lineNumber \in 1..count
  /\ \E j \in 1..(i - 1) :
       /\ edits[j].action = "delete_line"
       /\ edits[j].lineNumber = edits[i].lineNumber

\* A batch of insert_before, insert_after and delete_line requests in which
\* only delete_line requests are out of range and only delete_line requests
\* share a target line.
DeleteTolerantBatch(edits, count) ==
  /\ \A i \in 1..Len(edits) :
       /\ edits[i].keys \in {<<"lineNumber", "action">>,
                             <<"lineNumber", "action", "text">>}
       /\ edits[i].action \in {"insert_before", "insert_after", "delete_line"}
       /\ edits[i].action # "delete_line"
            => edits[i].text # Undef /\ edits[i].lineNumber \in 1..count
  /\ \A i, j \in 1..Len(edits) :
       (i # j /\ edits[i].lineNumber = edits[j].lineNumber)
         => edits[i].action = "delete_line" /\ edits[j].action = "delete_line"

\* C18, amended: action-based editor: a delete_line request whose target
\* line was already removed earlier in the batch gets outcome SKIPPED, one
\* whose line number is out of range gets outcome FAILED with the
\* out-of-range message; in both cases the batch continues: editFile does
\* not throw and the output is what the other requests make of the file.
C18_DeleteSkippedOrFailed ==
  (/\ editorVersion = "action"
   /\ TheCall.op = "editFile"
   /\ Settled(TheCall)
   /\ DeleteTolerantBatch(TheCall.edits, Len(splitLines(TheCall.before))))
  => /\ TheCall.error = NoError
     /\ sameUpToInsertedIndent(TheCall.modified,
          expectedFrom(splitLines(TheCall.before), TheCall.edits, 1))
     /\ \A i \in 1..Len(TheCall.edits) :
          /\ OutOfRangeDelete(TheCall.edits, i,
                              Len(splitLines(TheCall.before)))
               => /\ TheCall.results[TheCall.edits[i].lineNumber].status
                       = "FAILED"
                  /\ TheCall.results[TheCall.edits[i].lineNumber].message
                       = "Line number is out of range."
          /\ RepeatedDelete(TheCall.edits, i,
                            Len(splitLines(TheCall.before)))
               => TheCall.results[TheCall.edits[i].lineNumber].status
                    = "SKIPPED"

\* C18 amended happens: line 2 of three was deleted twice in a batch that
\* was written, the second request being SKIPPED.
C18_Witness ==
  /\ editorVersion = "action"
  /\ TheCall.op = "editFile" /\ TheCall.pc = "resolved" /\ ~TheCall.dryRun
  /\ TheCall.before = <<"a", NL, " ", "b", NL, "c">>
  /\ Len(TheCall.edits) = 2
  /\ RepeatedDelete(TheCall.edits, 2, 3)
  /\ TheCall.edits[2].lineNumber = 2
  /\ TheCall.results[2].status = "SKIPPED"
  /\ disk[TheCall.path] = <<"a", NL, "c">>

\* C18 as stated: action-based editor: a delete_line request whose line
\* number is out of range gets outcome SKIPPED, never FAILED.
C18_AsStated ==
  (/\ editorVersion = "action"
   /\ TheCall.op = "editFile"
   /\ Settled(TheCall)
   /\ DeleteTolerantBatch(TheCall.edits, Len(splitLines(TheCall.before))))
  => \A i \in 1..Len(TheCall.edits) :
       OutOfRangeDelete(TheCall.edits, i, Len(splitLines(TheCall.before)))
         => /\ TheCall.edits[i].lineNumber \in DOMAIN TheCall.results
            /\ TheCall.results[TheCall.edits[i].lineNumber].status = "SKIPPED"

\* --------------------------------------------------------------- C19
\* C19: every regexMatch that is not a valid regular expression makes
\* editFile fail before anything is written, whatever the range of the
\* request (single-line or multi-line) and whether or not the pattern would
\* be used.  Said of the range-based editor and of the batches of one
\* request whose range lies within the file.
C19_InvalidPatternRejected ==
  (/\ editorVersion = "range"
   /\ TheCall.op = "editFile"
   /\ Settled(TheCall)
   /\ Len(TheCall.edits) = 1
   /\ ~BadRange(TheCall.edits[1], Len(buildLines(TheCall.before)))
   /\ truthy(TheCall.edits[1].regexMatch)
   /\ ~regexCompiles(TheCall.edits[1].regexMatch))
  => /\ TheCall.pc = "rejected"
     /\ disk[TheCall.path] = TheCall.before

\* --------------------------------------------------------------- C20
\* The state id saveState gives (path, edits).
fingerprint(path, edits) == saveState(<<>>, 0, 1, path, edits).id

\* C20: when edit_file_lines is called with dryRun = false and the edit is
\* written, the cache holds no unexpired entry under the fingerprint of the
\* same (path, edits) any more, so a state id issued by an earlier dry run
\* of that edit set can no longer be approved.
C20_WriteDiscardsEntry ==
  [][(/\ TheCall.op = "edit_file_lines"
      /\ TheCall.pc = "write"
      /\ calls'[1].pc = "resolved")
     => ~(/\ fingerprint(TheCall.path, TheCall.edits) \in DOMAIN states'
          /\ now' - states'[fingerprint(TheCall.path, TheCall.edits)].timestamp
               <= TTL)]_vars

\* --------------------------------------------------------------- C21
\* C21: action-based editor: after editFile returns, the outcome map holds
\* one outcome for every submitted request, under that request's line
\* number; no outcome is lost or overwritten by that of another request.
\* Said of the batches of insert_before, insert_after and delete_line
\* requests whose lines are in the file.
C21_OneOutcomePerRequest ==
  (/\ editorVersion = "action"
   /\ TheCall.op = "editFile"
   /\ Settled(TheCall)
   /\ \A i \in 1..Len(TheCall.edits) :
        /\ TheCall.edits[i].keys \in {<<"lineNumber", "action">>,
                                      <<"lineNumber", "action", "text">>}
        /\ TheCall.edits[i].lineNumber
             \in 1..Len(splitLines(TheCall.before)))
  => /\ TheCall.error = NoError
     /\ \A i \in 1..Len(TheCall.edits) :
          TheCall.edits[i].lineNumber \in DOMAIN TheCall.results
     /\ Cardinality(DOMAIN TheCall.results) = Len(TheCall.edits)

\* --------------------------------------------------------------- C22
\* C22: action-based editor: an edit request that gives a lineNumber and a
\* text but no action is treated as replace_content_at_line: the target
\* line's body is replaced by text and the outcome is APPLIED.  Said of the
\* batches of one request whose line is in the file.
C22_NoActionReplaces ==
  (/\ editorVersion = "action"
   /\ TheCall.op = "editFile"
   /\ Settled(TheCall)
   /\ Len(TheCall.edits) = 1
   /\ TheCall.edits[1].keys = <<"lineNumber", "text">>
   /\ TheCall.edits[1].lineNumber \in 1..Len(splitLines(TheCall.before)))
  => LET n == TheCall.edits[1].lineNumber
         line == fileLine(TheCall.before, n)
     IN /\ TheCall.error = NoError
        /\ n \in DOMAIN TheCall.results
        /\ TheCall.results[n].status = "APPLIED"
        /\ fileLine(TheCall.modified, n)
             = SubSeq(line, 1, getIndentationLevel(line))
                 \o TheCall.edits[1].text

\* ---------------------------------------------------------------- C23
\* Two lists of edit requests that hold the same requests in another order.
isPermutation(a, b) == /\ Len(a) = Len(b)
                       /\ \E f \in [DOMAIN a -> DOMAIN a] : (\A i, j \in DOMAIN a : f[i] = f[j] => i = j) /\ (\A i \in DOMAIN a : a[i] = b[f[i]])

\* C23: the fingerprint of a preview does not depend on the order of its
\* edits.  Two previews kept for the same path whose edit lists are
\* permutations of each other, lists with several edits on one start and
\* end line included, are kept under one id.
C23_IdIgnoresOrder == \A id1, id2 \in DOMAIN states : (states[id1].path = states[id2].path /\ isPermutation(states[id1].edits, states[id2].edits)) => id1 = id2

\* ---------------------------------------------------------------- C27
\* The dry run of edit_file_lines with the input `in` on the content the
\* call read returned the id the call approves.
previewOf(call, in) == editFileSync(editorVersion, call.before, in[2])

approvesPreview(call, in) == /\ call.op = "approveEdit" /\ Settled(call) /\ call.path = in[1] /\ previewOf(call, in).error = NoError /\ fingerprint(in[1], previewOf(call, in).edits) = call.stateId

\* C27: when the file is the same at a successful dry run of
\* edit_file_lines and at the approve_edit with the id it returned, the
\* approval writes exactly the previewed content and returns the diff the
\* dry run returned.
C27_ApprovalWritesPreview == \A c \in Slots, in \in PreviewInputs : approvesPreview(calls[c], in) => (calls[c].error = NoError /\ calls[c].modified = previewOf(calls[c], in).modified /\ calls[c].diff = previewOf(calls[c], in).diff)

\* C27 said of the range-based editor only.
C27_RangePreview == editorVersion = "range" => C27_ApprovalWritesPreview

C27_RangeWitness == editorVersion = "range" /\ \E in \in PreviewInputs : approvesPreview(calls[1], in) /\ calls[1].pc = "resolved" /\ calls[1].modified # calls[1].before

\* ---------------------------------------------------------------- C28
\* C28: a saved edit set is applied at most once.  Whenever an approveEdit
\* call finishes its write, the entry it approves is still in the cache:
\* no other approveEdit call with the same id has applied it first.
C28_AppliedAtMostOnce == [][\A c \in Slots : (calls[c].op = "approveEdit" /\ calls[c].pc = "write" /\ calls'[c].pc = "resolved") => calls[c].stateId \in DOMAIN states]_vars

\* ---------------------------------------------------------------- C29
\* The requests editFile was given, run again on the content it read.
secondRun(call) == editFileSync("action", call.before, call.edits)

\* C29: the action-based editFile leaves the request objects it is given as
\* they were, and a second editFile with the same objects on the unchanged
\* file produces the content the first one produced, multi-line text aimed
\* at an indented line included.
C29_RequestsUntouched == [][(editorVersion = "action" /\ calls[1].op = "editFile" /\ calls[1].pc = "read" /\ calls'[1].pc # "read" /\ calls'[1].error = NoError) => (calls'[1].edits = calls[1].edits /\ secondRun(calls'[1]).modified = calls'[1].modified)]_vars

\* ---------------------------------------------------------------- C30
\* A replace with neither strMatch nor regexMatch.
unconditioned(edit) == ~truthy(edit.strMatch) /\ ~truthy(edit.regexMatch)

\* A line covered by an unconditioned replace of the batch is in the range
\* of another edit of the batch.
doublyTargeted(edits) == \E i, j \in DOMAIN edits : i # j /\ unconditioned(edits[i]) /\ edits[i].startLine <= edits[j].endLine /\ edits[j].startLine <= edits[i].endLine

\* C30: range-based editor: a batch of in-range edits in which a line
\* covered by an unconditioned replace is also targeted by another edit of
\* any kind, a regexMatch edit included, is rejected by validation.
C30_UnconditionedLineExclusive == (editorVersion = "range" /\ TheCall.op = "editFile" /\ Settled(TheCall) /\ (\A i \in DOMAIN TheCall.edits : validateRange(TheCall.edits[i], Len(splitLines(normalizeLineEndings(TheCall.before)))) = NoError) /\ doublyTargeted(TheCall.edits)) => TheCall.pc = "rejected"

\* ---------------------------------------------------------------- C25
\* strMatch is not in the line as it is written but is in it once the runs
\* of whitespace of both are collapsed to one space.
flexibleOnly(line, edit) == /\ truthy(edit.strMatch) /\ ~includes(trim(line), trim(edit.strMatch)) /\ includes(collapseWhitespace(trim(line)), collapseWhitespace(trim(edit.strMatch)))

\* C25: range-based editor: a single-line edit whose strMatch is found only
\* after collapsing whitespace succeeds and replaces only the span of the
\* line that corresponds to strMatch: the text before and after the span
\* is in the line that results.
C25_FlexibleMatchKeepsRest == (editorVersion = "range" /\ TheCall.op = "editFile" /\ Settled(TheCall) /\ Len(TheCall.edits) = 1 /\ MatchEdit(TheCall.edits[1]) /\ TheCall.edits[1].startLine \in 1..Len(splitLines(normalizeLineEndings(TheCall.before))) /\ flexibleOnly(fileLine(TheCall.before, TheCall.edits[1].startLine), TheCall.edits[1])) => (TheCall.error = NoError /\ LET body == trimStart(fileLine(TheCall.before, TheCall.edits[1].startLine)) IN \E sp \in matchSpans(body, TheCall.edits[1]) : trimStart(fileLine(TheCall.modified, TheCall.edits[1].startLine)) = trimStart(SubSeq(body, 1, sp[1]) \o TheCall.edits[1].content \o SubSeq(body, sp[2] + 1, Len(body))))

\* ---------------------------------------------------------------- C24
\* A batch of in-range replacements without match conditions whose ranges
\* are pairwise disjoint.
DisjointReplaces(edits, totalLines) == /\ Len(edits) >= 1 /\ (\A i \in DOMAIN edits : unconditioned(edits[i]) /\ validateRange(edits[i], totalLines) = NoError) /\ (\A i, j \in DOMAIN edits : i # j => (edits[i].endLine < edits[j].startLine \/ edits[j].endLine < edits[i].startLine))

\* What stands for original line l: the content lines of the edit whose
\* range starts at l, as supplied or (rebased) carrying the indentation of
\* the original line l; nothing for the other lines of a range; the line
\* itself outside the ranges.
replacedAt(lines, edits, l, rebased) ==
  IF \E i \in DOMAIN edits : edits[i].startLine = l
  THEN LET e == edits[CHOOSE i \in DOMAIN edits : edits[i].startLine = l]
       IN IF rebased THEN splitLines(preserveIndentation(e.content, SubSeq(lines[l], 1, getIndentationLevel(lines[l])))) ELSE splitLines(e.content)
  ELSE IF \E i \in DOMAIN edits : l \in edits[i].startLine..edits[i].endLine THEN <<>> ELSE <<lines[l]>>

RECURSIVE replacedFrom(_, _, _, _)
replacedFrom(lines, edits, l, rebased) ==
  IF l > Len(lines) THEN <<>>
  ELSE replacedAt(lines, edits, l, rebased) \o replacedFrom(lines, edits, l + 1, rebased)

\* The call in slot 1 is a range-based editFile with such a batch, done.
DisjointCall == /\ editorVersion = "range" /\ TheCall.op = "editFile" /\ Settled(TheCall) /\ DisjointReplaces(TheCall.edits, Len(splitLines(normalizeLineEndings(TheCall.before))))

\* C24: range-based editor: for a batch of replacements without match
\* conditions whose ranges are pairwise disjoint, the output is the
\* original file with each range replaced by that edit's content lines,
\* rebased onto the indentation of the first original line of the range,
\* whatever the order of the edits in the list and however much each
\* replacement grows or shrinks the line count.
C24_RangesReplacedInPlace == DisjointCall => (TheCall.error = NoError /\ TheCall.modified = joinLines(replacedFrom(splitLines(normalizeLineEndings(TheCall.before)), TheCall.edits, 1, TRUE)))

\* Two replacements listed in ascending line order, the first of which
\* grows the line count, have been applied.
C24_Witness == /\ DisjointCall /\ TheCall.pc = "resolved" /\ ~TheCall.dryRun /\ Len(TheCall.edits) = 2 /\ TheCall.edits[1].startLine < TheCall.edits[2].startLine /\ Len(splitLines(TheCall.edits[1].content)) > TheCall.edits[1].endLine - TheCall.edits[1].startLine + 1 /\ disk[FilePath] = TheCall.modified

\* C24 as stated: each range is replaced by the content lines as supplied.
C24_AsStated == DisjointCall => (TheCall.error = NoError /\ TheCall.modified = joinLines(replacedFrom(splitLines(normalizeLineEndings(TheCall.before)), TheCall.edits, 1, FALSE)))

\* ---------------------------------------------------------------- C26
\* Line k of the replacement text stands in the output with the indentation
\* of the original first line of the range, shifted by the difference
\* between its own indentation and that of the replacement's first line.
shiftedBy(out, orig, line, first) == /\ getIndentationLevel(out) = Len(orig) + getIndentationLevel(line) - getIndentationLevel(first) /\ trimStart(out) = trimStart(line)

\* No line of the replacement text is indented less than its first line by
\* more than the original line is indented.
shiftable(content, orig) == \A k \in DOMAIN splitLines(content) : getIndentationLevel(orig) + getIndentationLevel(splitLines(content)[k]) >= getIndentationLevel(splitLines(content)[1])

\* C26: range-based editor, one replace without match condition: the first
\* replacement line gets exactly the indentation of the original first line
\* of the range, and every continuation line gets that indentation shifted
\* by the difference between its own leading-whitespace length and that of
\* the replacement's first line.  Said of the replacements for which that
\* shift leaves no negative indentation.
C26_RelativeIndentationKept == (DisjointCall /\ Len(TheCall.edits) = 1 /\ TheCall.error = NoError /\ shiftable(TheCall.edits[1].content, fileLine(TheCall.before, TheCall.edits[1].startLine))) => LET e == TheCall.edits[1]
                                      ls == splitLines(e.content)
                                      orig == fileLine(TheCall.before, e.startLine)
                                      indent == SubSeq(orig, 1, getIndentationLevel(orig))
                                  IN /\ fileLine(TheCall.modified, e.startLine) = indent \o trimStart(ls[1])
                                     /\ \A k \in 2..Len(ls) : shiftedBy(fileLine(TheCall.modified, e.startLine + k - 1), indent, ls[k], ls[1])

====
